---- MODULE Spec2Model ----
(***************************************************************************)
(* A model of claudy's session index, incremental tail engine and          *)
(* view-state controller (src/src/message.rs, session.rs, app.rs,          *)
(* watcher.rs).                                                            *)
(*                                                                         *)
(* Strings that the code only stores and compares are TLA+ strings; a      *)
(* string the code inspects (trim, starts_with, rfind) is a sequence of    *)
(* tokens whose concatenation is the string.  Option<T> is a sequence of   *)
(* length 0 (None) or 1 (Some).  A file is a sequence of units: a log line *)
(* occupies two units (its first part, and its remainder with the          *)
(* newline), an empty line one unit, so that an offset can fall inside a   *)
(* line.  The chat scroll position and the layout rectangles belong to the *)
(* rendering layer and are not modelled.                                   *)
(***************************************************************************)
EXTENDS Integers, Sequences, FiniteSets, TLC

(***************************************************************************)
(* Option and sequence helpers                                             *)
(***************************************************************************)
None == <<>>
Some(v) == <<v>>
IsSome(o) == o # <<>>
IsNone(o) == o = <<>>
Get(o) == o[1]
UnwrapOr(o, d) == IF o = <<>> THEN d ELSE o[1]

Range(s) == {s[i] : i \in 1..Len(s)}

Min(a, b) == IF a < b THEN a ELSE b
Max(a, b) == IF a > b THEN a ELSE b

RECURSIVE Concat(_)
Concat(toks) == IF toks = <<>> THEN "" ELSE Head(toks) \o Concat(Tail(toks))

RECURSIVE JoinWith(_, _)
JoinWith(parts, sep) ==
  IF parts = <<>> THEN ""
  ELSE IF Len(parts) = 1 THEN parts[1]
  ELSE parts[1] \o sep \o JoinWith(Tail(parts), sep)

RECURSIVE SumSeq(_)
SumSeq(s) == IF s = <<>> THEN 0 ELSE Head(s) + SumSeq(Tail(s))

(***************************************************************************)
(* message.rs: the raw line and the message parser                         *)
(***************************************************************************)
\* str::trim on a token sequence: leading and trailing blanks removed.
RECURSIVE TrimStart(_)
TrimStart(s) == IF s # <<>> /\ Head(s) = " " THEN TrimStart(Tail(s)) ELSE s

RECURSIVE TrimEnd(_)
TrimEnd(s) ==
  IF s # <<>> /\ s[Len(s)] = " " THEN TrimEnd(SubSeq(s, 1, Len(s) - 1)) ELSE s

Trim(s) == TrimEnd(TrimStart(s))

\* str::rfind('>'): the last position of the token, 0 when absent.
RFind(s, tok) ==
  IF tok \in Range(s) THEN CHOOSE i \in 1..Len(s) :
         s[i] = tok /\ \A j \in (i + 1)..Len(s) : s[j] # tok
  ELSE 0

\* serde_json::Value of message.content: a string, an array of blocks, or
\* any other JSON value.
StrContent(toks) == [k |-> "str", s |-> toks, items |-> <<>>]
ArrContent(blocks) == [k |-> "arr", s |-> <<>>, items |-> blocks]
OtherContent == [k |-> "other", s |-> <<>>, items |-> <<>>]

TextBlock(toks) == [type |-> "text", text |-> Some(toks), name |-> None]
ToolUseBlock(name) == [type |-> "tool_use", text |-> None, name |-> name]
ToolResultBlock == [type |-> "tool_result", text |-> None, name |-> None]

\* The part one text block contributes, given its trimmed text.
TextPart(trimmed) == IF trimmed # <<>> THEN <<Concat(trimmed)>> ELSE <<>>

\* The part one block of a content array contributes.
BlockPart(b) ==
  CASE b.type = "text" -> IF IsSome(b.text) THEN TextPart(Trim(Get(b.text))) ELSE <<>>
    [] b.type = "tool_use" -> <<"[tool: " \o UnwrapOr(b.name, "unknown") \o "]">>
    [] b.type = "tool_result" -> <<"[tool result]">>
    [] OTHER -> <<>>

RECURSIVE BlockParts(_)
BlockParts(items) ==
  IF items = <<>> THEN <<>> ELSE BlockPart(Head(items)) \o BlockParts(Tail(items))

\* extract_text_content on a string that looks tag-wrapped: s is the trimmed
\* string, after the trimmed text behind its last '>'.
ExtractTagged(s, after) ==
  IF after # <<>> THEN Concat(after)
  ELSE IF "command-name" \in Range(s) \/ "local-command" \in Range(s)
       THEN "[command]"
       ELSE Concat(s)

\* extract_text_content on a string, s being the trimmed string.
ExtractStr(s) ==
  IF s # <<>> /\ Head(s) = "<" /\ ">" \in Range(s)
  THEN ExtractTagged(s, Trim(SubSeq(s, RFind(s, ">") + 1, Len(s))))
  ELSE Concat(s)

extract_text_content(content) ==
  CASE content.k = "str" -> ExtractStr(Trim(content.s))
    [] content.k = "arr" -> JoinWith(BlockParts(content.items), "\n")
    [] OTHER -> ""

has_tool_use(content) ==
  /\ content.k = "arr"
  /\ \E i \in 1..Len(content.items) : content.items[i].type = "tool_use"

\* RawUsage and RawMessageContent
Usage(inp, out, cread, ccreate) ==
  [input_tokens |-> inp, output_tokens |-> out,
   cache_read_input_tokens |-> cread, cache_creation_input_tokens |-> ccreate]

Body(content, usage) == [content |-> content, usage |-> usage]

\* A line of text: one that serde decodes as a RawMessage (json), one that it
\* does not, or an empty line.
RawLine(type, ts, msg, sid, branch, cwd, slug, summary) ==
  [json |-> TRUE, blank |-> FALSE, type |-> type, timestamp |-> ts,
   message |-> msg, sessionId |-> sid, gitBranch |-> branch, cwd |-> cwd,
   slug |-> slug, summary |-> summary]

Undecodable ==
  [json |-> FALSE, blank |-> FALSE, type |-> "", timestamp |-> None,
   message |-> None, sessionId |-> None, gitBranch |-> None, cwd |-> None,
   slug |-> None, summary |-> None]

BlankLine == [Undecodable EXCEPT !.blank = TRUE]

SessionMessage(t, ts, content, tin, tout) ==
  [msg_type |-> t, timestamp |-> ts, content |-> content,
   tokens_in |-> tin, tokens_out |-> tout]

\* raw.message.and_then(|m| m.content) and raw.message.and_then(|m| m.usage)
RawContent(line) == IF IsSome(line.message) THEN Get(line.message).content ELSE None
RawUsage(line) == IF IsSome(line.message) THEN Get(line.message).usage ELSE None

\* .map(extract_text_content).unwrap_or_default()
ContentText(rawc) == IF IsSome(rawc) THEN extract_text_content(Get(rawc)) ELSE ""

TokensIn(usage) ==
  IF IsSome(usage)
  THEN Some(UnwrapOr(Get(usage).input_tokens, 0)
            + UnwrapOr(Get(usage).cache_read_input_tokens, 0)
            + UnwrapOr(Get(usage).cache_creation_input_tokens, 0))
  ELSE None

TokensOut(usage) == IF IsSome(usage) THEN Get(usage).output_tokens ELSE None

\* A variant of ActualType that does not look for tool_use blocks.
AlwaysAssistant(rawc) == "Assistant"

ActualType(rawc) ==
  IF IsSome(rawc) /\ has_tool_use(Get(rawc)) THEN "ToolUse" ELSE "Assistant"

\* The match on the type of parse_line.
TypedMessage(line, timestamp) ==
  CASE line.type = "user" ->
         SessionMessage("User", timestamp, ContentText(RawContent(line)), None, None)
    [] line.type = "assistant" ->
         SessionMessage(ActualType(RawContent(line)), timestamp,
                        ContentText(RawContent(line)),
                        TokensIn(RawUsage(line)), TokensOut(RawUsage(line)))
    [] line.type = "progress" ->
         SessionMessage("Progress", timestamp, "[progress]", None, None)
    [] OTHER ->
         SessionMessage("Other", timestamp, "[" \o line.type \o "]", None, None)

\* A variant of Retain that skips nothing.
RetainAll(parsed) == Some(parsed)

\* The last test of parse_line: empty or uninteresting messages are skipped.
Retain(parsed) ==
  IF parsed.content = "" \/ parsed.content = "[command]" THEN None ELSE Some(parsed)

\* parse_line(line): None or Some(message).  clock stands for Utc::now().
parse_line(line, clock) ==
  IF ~line.json THEN None
  ELSE IF line.type \in {"file-history-snapshot", "queue-operation"} THEN None
  ELSE Retain(TypedMessage(line, UnwrapOr(line.timestamp, clock)))

SessionMeta(branch, cwd, slug, summary) ==
  [git_branch |-> branch, cwd |-> cwd, slug |-> slug, summary |-> summary]

extract_meta(line) ==
  IF ~line.json THEN None
  ELSE IF line.type = "summary"
       THEN Some(SessionMeta(None, None, None, line.summary))
  ELSE IF IsNone(line.sessionId) THEN None
  ELSE Some(SessionMeta(line.gitBranch, line.cwd, line.slug, None))

(***************************************************************************)
(* Files.  A log line occupies a "head" unit and a "tail" unit (the tail   *)
(* carries the newline); an empty line is one "nl" unit.  BufRead::lines   *)
(* cuts the units at the newlines; a piece that is not a whole line is     *)
(* text that does not decode.                                              *)
(***************************************************************************)
HeadUnit(l) == [k |-> "head", line |-> l]
TailUnit(l) == [k |-> "tail", line |-> l]
NlUnit == [k |-> "nl", line |-> BlankLine]

WholeLine(l) == IF l.blank THEN <<NlUnit>> ELSE <<HeadUnit(l), TailUnit(l)>>

RECURSIVE WholeLines(_)
WholeLines(ls) == IF ls = <<>> THEN <<>> ELSE WholeLine(Head(ls)) \o WholeLines(Tail(ls))

DecodeChunk(chunk) ==
  IF chunk = <<NlUnit>> THEN BlankLine
  ELSE IF Len(chunk) = 2 /\ chunk[1].k = "head" /\ chunk[2].k = "tail"
          /\ chunk[1].line = chunk[2].line
       THEN chunk[1].line
       ELSE Undecodable

\* reader.lines(): the lines of the units from position i on (1-based), the
\* last one with or without its newline.
RECURSIVE ReadLines(_, _, _)
ReadLines(bytes, i, chunk) ==
  IF i > Len(bytes)
  THEN IF chunk = <<>> THEN <<>> ELSE <<DecodeChunk(chunk)>>
  ELSE IF bytes[i].k \in {"tail", "nl"}
       THEN <<DecodeChunk(Append(chunk, bytes[i]))>> \o ReadLines(bytes, i + 1, <<>>)
       ELSE ReadLines(bytes, i + 1, Append(chunk, bytes[i]))

File(bytes, mtime) == [exists |-> TRUE, readable |-> TRUE, bytes |-> bytes, mtime |-> mtime]
NoFile == [exists |-> FALSE, readable |-> FALSE, bytes |-> <<>>, mtime |-> 0]

CanOpen(f) == f.exists /\ f.readable

(***************************************************************************)
(* session.rs                                                              *)
(***************************************************************************)
ACTIVE_THRESHOLD_SECS == 300

ProjectSlug == "proj"

IndexEntry(title, summary, branch, path) ==
  [custom_title |-> title, summary |-> summary, git_branch |-> branch,
   project_path |-> path]

NoEntry == IndexEntry(None, None, None, None)

Session(id, slug, title, summary, branch, cwd, msgs, last, off, tin, tout) ==
  [id |-> id, project_slug |-> ProjectSlug, slug |-> slug, custom_title |-> title,
   summary |-> summary, git_branch |-> branch, cwd |-> cwd, messages |-> msgs,
   last_activity |-> last, file_offset |-> off,
   total_tokens_in |-> tin, total_tokens_out |-> tout]

\* The metadata block of both line loops: the fields still unset take the
\* values of meta.  s is the accumulator of parse_session_file or the
\* session of read_new_lines.
MergeMeta(s, meta) ==
  IF IsSome(meta)
  THEN [s EXCEPT !.git_branch = IF IsNone(@) THEN Get(meta).git_branch ELSE @,
                 !.cwd = IF IsNone(@) THEN Get(meta).cwd ELSE @,
                 !.slug = IF IsNone(@) THEN Get(meta).slug ELSE @]
  ELSE s

NeedsMeta(s) == IsNone(s.git_branch) \/ IsNone(s.cwd) \/ IsNone(s.slug)

\* The message block of the loop of parse_session_file; m is the result of
\* parse_line.
ParsePush(acc, m) ==
  IF IsSome(m)
  THEN [acc EXCEPT !.last_activity = Get(m).timestamp,
                   !.total_tokens_in = @ + UnwrapOr(Get(m).tokens_in, 0),
                   !.total_tokens_out = @ + UnwrapOr(Get(m).tokens_out, 0),
                   !.messages = Append(@, Get(m))]
  ELSE acc

\* One turn of the line loop of parse_session_file.
ParseStep(acc, line, clock) ==
  IF line.blank THEN acc
  ELSE ParsePush(MergeMeta(acc, IF NeedsMeta(acc) THEN extract_meta(line) ELSE None),
                 parse_line(line, clock))

\* A variant of ParseLoop that stops at the first line that does not decode.
RECURSIVE StoppingLoop(_, _, _)
StoppingLoop(acc, lines, clock) ==
  IF lines = <<>> \/ ~Head(lines).json THEN acc
  ELSE StoppingLoop(ParseStep(acc, Head(lines), clock), Tail(lines), clock)

RECURSIVE ParseLoop(_, _, _)
ParseLoop(acc, lines, clock) ==
  IF lines = <<>> THEN acc
  ELSE ParseLoop(ParseStep(acc, Head(lines), clock), Tail(lines), clock)

\* The variables of parse_session_file before its loop.
ParseStart(entry, clock) ==
  [git_branch |-> entry.git_branch, cwd |-> entry.project_path, slug |-> None,
   last_activity |-> clock, total_tokens_in |-> 0, total_tokens_out |-> 0,
   messages |-> <<>>]

\* The Session that parse_session_file returns.
ParsedSession(id, entry, acc, file_len) ==
  Session(id, acc.slug, entry.custom_title, entry.summary, acc.git_branch, acc.cwd,
          acc.messages, acc.last_activity, file_len,
          acc.total_tokens_in, acc.total_tokens_out)

\* parse_session_file(file_path, project_slug, index_entry): [ok, session].
\* The length is taken from the metadata when the file is opened; the lines
\* are then read to the end of the file, which by then also holds `during`,
\* the units an external writer appended in between.  entry is the index
\* entry, NoEntry when there is none.
parse_session_file(id, f, entry, clock, during) ==
  IF ~CanOpen(f) THEN [ok |-> FALSE, session |-> Session(id, None, None, None, None, None, <<>>, 0, 0, 0, 0)]
  ELSE [ok |-> TRUE,
        session |->
          ParsedSession(id, entry,
                        ParseLoop(ParseStart(entry, clock),
                                  ReadLines(f.bytes \o during, 1, <<>>), clock),
                        Len(f.bytes))]

\* A variant of TailPush that does not count the output tokens.
TailPushNoTokensOut(st, s, m) ==
  IF IsSome(m)
  THEN [session |->
          [s EXCEPT !.last_activity = Get(m).timestamp,
                    !.total_tokens_in = @ + UnwrapOr(Get(m).tokens_in, 0),
                    !.messages = Append(@, Get(m))],
        new_messages |-> Append(st.new_messages, Get(m))]
  ELSE [session |-> s, new_messages |-> st.new_messages]

\* The message block of the loop of read_new_lines; st holds the session and
\* the list of new messages, s the session after the metadata block.
TailPush(st, s, m) ==
  IF IsSome(m)
  THEN [session |->
          [s EXCEPT !.last_activity = Get(m).timestamp,
                    !.total_tokens_in = @ + UnwrapOr(Get(m).tokens_in, 0),
                    !.total_tokens_out = @ + UnwrapOr(Get(m).tokens_out, 0),
                    !.messages = Append(@, Get(m))],
        new_messages |-> Append(st.new_messages, Get(m))]
  ELSE [session |-> s, new_messages |-> st.new_messages]

\* A variant of TailStep that extracts no metadata.
TailStepNoMeta(st, line, clock) ==
  IF line.blank THEN st ELSE TailPush(st, st.session, parse_line(line, clock))

\* One turn of the line loop of read_new_lines.
TailStep(st, line, clock) ==
  IF line.blank THEN st
  ELSE TailPush(st,
                MergeMeta(st.session,
                          IF NeedsMeta(st.session) THEN extract_meta(line) ELSE None),
                parse_line(line, clock))

RECURSIVE TailLoop(_, _, _)
TailLoop(st, lines, clock) ==
  IF lines = <<>> THEN st
  ELSE TailLoop(TailStep(st, Head(lines), clock), Tail(lines), clock)

\* A variant of TailDone that leaves the offset as it was.
TailDoneStale(st, file_len) ==
  [ok |-> TRUE, session |-> st.session,
   new_messages |-> st.new_messages, file_len |-> file_len]

\* The end of read_new_lines: the offset becomes the length taken at the
\* start.
TailDone(st, file_len) ==
  [ok |-> TRUE, session |-> [st.session EXCEPT !.file_offset = file_len],
   new_messages |-> st.new_messages, file_len |-> file_len]

\* Two variants of read_new_lines: one that rewinds the offset to the length
\* of a file that is not longer than the offset, and one without the early
\* return.
RewindingRead(session, f, clock, during) ==
  IF ~CanOpen(f)
  THEN [ok |-> FALSE, session |-> session, new_messages |-> <<>>, file_len |-> 0]
  ELSE IF Len(f.bytes) <= session.file_offset
  THEN [ok |-> TRUE, session |-> [session EXCEPT !.file_offset = Len(f.bytes)],
        new_messages |-> <<>>, file_len |-> Len(f.bytes)]
  ELSE TailDone(TailLoop([session |-> session, new_messages |-> <<>>],
                         ReadLines(f.bytes \o during, session.file_offset + 1, <<>>),
                         clock),
                Len(f.bytes))

UnguardedRead(session, f, clock, during) ==
  IF ~CanOpen(f)
  THEN [ok |-> FALSE, session |-> session, new_messages |-> <<>>, file_len |-> 0]
  ELSE TailDone(TailLoop([session |-> session, new_messages |-> <<>>],
                         ReadLines(f.bytes \o during, session.file_offset + 1, <<>>),
                         clock),
                Len(f.bytes))

\* read_new_lines(session): [ok, session, new_messages, file_len].
read_new_lines(session, f, clock, during) ==
  IF ~CanOpen(f)
  THEN [ok |-> FALSE, session |-> session, new_messages |-> <<>>, file_len |-> 0]
  ELSE IF Len(f.bytes) <= session.file_offset
  THEN [ok |-> TRUE, session |-> session, new_messages |-> <<>>,
        file_len |-> Len(f.bytes)]
  ELSE TailDone(TailLoop([session |-> session, new_messages |-> <<>>],
                         ReadLines(f.bytes \o during, session.file_offset + 1, <<>>),
                         clock),
                Len(f.bytes))

\* The log files of the project directory are named <id>.jsonl; the ids a
\* file can have, and those that start with "agent-".
Ids == {"s1", "S2", "s3", "agent-1"}
SubagentIds == {"agent-1"}

starts_with_agent(id) == id \in SubagentIds

Path(stem, ext) == [stem |-> stem, ext |-> ext]
LogPath(id) == Path(id, "jsonl")
IndexPath == Path("sessions-index", "json")

\* load_sessions_index(project_dir): the entries by session id, empty when
\* the file is missing or does not decode.
load_sessions_index(idx) ==
  IF idx.state = "ok" THEN idx.entries ELSE << >>

\* index.get(&session_id), with NoEntry for an absent entry: all the code
\* does with the entry is to read its fields through and_then.
IndexGet(map, id) == IF id \in DOMAIN map THEN map[id] ELSE NoEntry

\* A variant of Placeholder that takes nothing from the index entry.
BarePlaceholder(id, entry, clock) ==
  Session(id, None, None, None, None, None, <<>>, clock, 0, 0, 0)

\* The placeholder of discover_sessions for a file that could not be parsed.
Placeholder(id, entry, clock) ==
  Session(id, None, entry.custom_title, entry.summary, entry.git_branch,
          entry.project_path, <<>>, clock, 0, 0, 0)

\* The match on the result r of parse_session_file in discover_sessions.
ParsedOrPlaceholder(r, id, entry, clock) ==
  IF r.ok THEN r.session ELSE Placeholder(id, entry, clock)

\* The scan of the project directory, index being its loaded index.
ScanProject(fs, index, clock, during) ==
  [id \in {i \in Ids : fs.files[i].exists /\ ~starts_with_agent(i)} |->
     ParsedOrPlaceholder(
       parse_session_file(id, fs.files[id], IndexGet(index, id), clock, during[id]),
       id, IndexGet(index, id), clock)]

\* A variant of discover_sessions that returns an empty map for every root
\* it cannot read.
DiscoverOrEmpty(fs, clock, during) ==
  IF fs.root # "ok" THEN [ok |-> TRUE, sessions |-> << >>]
  ELSE [ok |-> TRUE,
        sessions |-> ScanProject(fs, load_sessions_index(fs.index), clock, during)]

\* discover_sessions(base_path): [ok, sessions].  fs is the record of the
\* root state, the files and the index; during[id] are the units appended to
\* file id while it is being parsed.
discover_sessions(fs, clock, during) ==
  IF fs.root = "missing" THEN [ok |-> TRUE, sessions |-> << >>]
  ELSE IF fs.root # "ok" THEN [ok |-> FALSE, sessions |-> << >>]
  ELSE [ok |-> TRUE,
        sessions |-> ScanProject(fs, load_sessions_index(fs.index), clock, during)]

\* The file a path names.
FileAt(fs, path) ==
  IF path.ext = "jsonl" /\ path.stem \in Ids THEN fs.files[path.stem] ELSE NoFile

\* discover_single_session(file_path): [ok, session], the session being
\* present when ok and the path is a .jsonl path.
discover_single_session(path, fs, clock, during) ==
  IF path.ext # "jsonl"
  THEN [ok |-> TRUE, some |-> FALSE,
        session |-> Session(path.stem, None, None, None, None, None, <<>>, 0, 0, 0, 0)]
  ELSE [some |-> TRUE] @@
       parse_session_file(path.stem, FileAt(fs, path),
                          IndexGet(load_sessions_index(fs.index), path.stem),
                          clock, during)

\* The update of one session by refresh_index_metadata.
RefreshOne(session, entry) ==
  [session EXCEPT
     !.custom_title = IF IsSome(entry.custom_title) THEN entry.custom_title ELSE @,
     !.summary = IF IsSome(entry.summary) THEN entry.summary ELSE @]

\* A variant of RefreshFrom that keeps only the sessions the index has.
RefreshFromIndexed(index, sessions) ==
  [id \in (DOMAIN sessions) \cap (DOMAIN index) |-> RefreshOne(sessions[id], index[id])]

RefreshFrom(index, sessions) ==
  [id \in DOMAIN sessions |->
     IF id \in DOMAIN index THEN RefreshOne(sessions[id], index[id]) ELSE sessions[id]]

\* refresh_index_metadata(base_path, sessions): the sessions afterwards.
refresh_index_metadata(fs, sessions) ==
  IF fs.root # "ok" THEN sessions
  ELSE RefreshFrom(load_sessions_index(fs.index), sessions)

\* Session::is_active: the modification time counts as the epoch when the
\* metadata cannot be read, and the elapsed time as 0 when it is negative.
Elapsed(clock, mtime) == IF clock >= mtime THEN clock - mtime ELSE 0

\* A variant of is_active that counts the end of the window in.
ActiveInclusive(f, clock) ==
  Elapsed(clock, IF f.exists THEN f.mtime ELSE 0) <= ACTIVE_THRESHOLD_SECS

is_active(f, clock) ==
  Elapsed(clock, IF f.exists THEN f.mtime ELSE 0) < ACTIVE_THRESHOLD_SECS

(***************************************************************************)
(* The characters of the strings that the text filter looks into.          *)
(***************************************************************************)
Chars(str) ==
  CASE str = "" -> <<>>
    [] str = "s1" -> <<"s", "1">>
    [] str = "S2" -> <<"S", "2">>
    [] str = "s3" -> <<"s", "3">>
    [] str = "agent-1" -> <<"a", "g", "e", "n", "t", "-", "1">>
    [] str = "foo" -> <<"f", "o", "o">>
    [] str = "T" -> <<"T">>
    [] str = "U" -> <<"U">>
    [] str = "sum" -> <<"s", "u", "m">>
    [] str = "main" -> <<"m", "a", "i", "n">>
    [] str = "dev" -> <<"d", "e", "v">>

\* char::to_lowercase for the letters in use.
LowerChar(c) ==
  CASE c = "S" -> "s"
    [] c = "T" -> "t"
    [] c = "U" -> "u"
    [] OTHER -> c

to_lowercase(cs) == [i \in 1..Len(cs) |-> LowerChar(cs[i])]

\* str::contains on character sequences.
Contains(hay, needle) ==
  \E i \in 0..(Len(hay) - Len(needle)) : SubSeq(hay, i + 1, i + Len(needle)) = needle

\* &self.id[..8.min(self.id.len())]
Prefix8(cs) == SubSeq(cs, 1, Min(8, Len(cs)))

short_id(s) == Prefix8(Chars(s.id))

\* format!("{} ({})", name, branch), or the name alone
WithBranch(name, branch) ==
  IF IsSome(branch) THEN name \o <<" ", "(">> \o Chars(Get(branch)) \o <<")">> ELSE name

display_name(s) ==
  WithBranch(IF IsSome(s.custom_title) THEN Chars(Get(s.custom_title))
             ELSE IF IsSome(s.slug) THEN Chars(Get(s.slug))
             ELSE IF IsSome(s.summary) THEN Chars(Get(s.summary))
             ELSE short_id(s),
             s.git_branch)

(***************************************************************************)
(* app.rs: sorting and the recompute of the visible list                   *)
(***************************************************************************)
Perms(S) ==
  {p \in [1..Cardinality(S) -> S] : \A i, j \in 1..Cardinality(S) : i # j => p[i] # p[j]}

\* A variant of sort_session_ids that does not sort.
UnsortedIds(sessions) == Perms(DOMAIN sessions)

\* sort_session_ids(sessions): a stable sort, descending by last_activity, of
\* the keys in the hash map's iteration order, which is arbitrary: every order
\* of the keys that is descending by last_activity is a possible result.
sort_session_ids(sessions) ==
  {p \in Perms(DOMAIN sessions) :
     \A i \in 1..(Len(p) - 1) :
        sessions[p[i]].last_activity >= sessions[p[i + 1]].last_activity}

\* A variant of MergeTitle that drops the title with the duplicate.
DropTitle(st, session, kept_id) == st

\* The duplicate branch of the deduplication: the custom title of the
\* session that is dropped moves to the kept one if that has none.
MergeTitle(st, session, kept_id) ==
  IF IsSome(session.custom_title) /\ IsNone(st.sessions[kept_id].custom_title)
  THEN [st EXCEPT !.sessions[kept_id].custom_title = session.custom_title]
  ELSE st

\* Vec::retain of update_sort's deduplication, one id at a time: st holds the
\* ids kept so far, seen_slugs and the sessions.
DedupStep(st, id) ==
  IF IsSome(st.sessions[id].slug)
  THEN IF Get(st.sessions[id].slug) \in DOMAIN st.seen_slugs
       THEN MergeTitle(st, st.sessions[id], st.seen_slugs[Get(st.sessions[id].slug)])
       ELSE [st EXCEPT !.seen_slugs = (Get(st.sessions[id].slug) :> id) @@ @,
                       !.ids = Append(@, id)]
  ELSE [st EXCEPT !.ids = Append(@, id)]

RECURSIVE DedupLoop(_, _)
DedupLoop(st, ids) ==
  IF ids = <<>> THEN st ELSE DedupLoop(DedupStep(st, Head(ids)), Tail(ids))

\* The text filter of update_sort on one session, filter_lower being the
\* lowercased filter.
MatchesFilter(s, filter_lower) ==
  \/ Contains(to_lowercase(display_name(s)), filter_lower)
  \/ Contains(Chars(s.id), filter_lower)
  \/ Contains(to_lowercase(Chars(UnwrapOr(s.summary, ""))), filter_lower)

\* The two retains of update_sort that filter.
ActiveFilter(ids, a, fs, clock) ==
  IF a.show_active_only
  THEN SelectSeq(ids, LAMBDA id : is_active(fs.files[id], clock))
  ELSE ids

TextFilter(ids, a, sessions) ==
  IF IsSome(a.filter_text)
  THEN SelectSeq(ids, LAMBDA id : MatchesFilter(sessions[id], to_lowercase(Get(a.filter_text))))
  ELSE ids

\* iter().position(): 0-based, None when absent.
Position(seq, x) ==
  IF x \in Range(seq)
  THEN Some((CHOOSE i \in 1..Len(seq) : seq[i] = x /\ \A j \in 1..(i - 1) : seq[j] # x) - 1)
  ELSE None

First(seq) == IF seq = <<>> THEN None ELSE Some(seq[1])

\* A variant of RestoreAt that selects the first id without moving the
\* cursor to it.
RestoreAtKeepCursor(a, pos) ==
  IF IsSome(pos) THEN [a EXCEPT !.list_state = pos]
  ELSE IF a.sorted_session_ids # <<>>
       THEN [a EXCEPT !.selected_session = First(a.sorted_session_ids)]
       ELSE [a EXCEPT !.list_state = None, !.selected_session = None]

\* The end of update_sort ("Restore selection"), pos being the position of
\* the old selection in the new list.
RestoreAt(a, pos) ==
  IF IsSome(pos) THEN [a EXCEPT !.list_state = pos]
  ELSE IF a.sorted_session_ids # <<>>
       THEN [a EXCEPT !.list_state = Some(0),
                      !.selected_session = First(a.sorted_session_ids)]
       ELSE [a EXCEPT !.list_state = None, !.selected_session = None]

RestoreSelection(a) ==
  IF IsSome(a.selected_session)
  THEN RestoreAt(a, Position(a.sorted_session_ids, Get(a.selected_session)))
  ELSE a

\* update_sort after the deduplication, whose result is dd.
Filtered(a, dd, fs, clock) ==
  RestoreSelection(
    [a EXCEPT !.sessions = dd.sessions,
              !.sorted_session_ids =
                 TextFilter(ActiveFilter(dd.ids, a, fs, clock), a, dd.sessions)])

\* A variant of update_sort that filters the sorted list before it
\* deduplicates it.
UpdateSortFilterFirst(a, order, fs, clock) ==
  RestoreSelection(
    [a EXCEPT !.sessions =
                 DedupLoop([ids |-> <<>>, seen_slugs |-> << >>, sessions |-> a.sessions],
                           TextFilter(ActiveFilter(order, a, fs, clock), a, a.sessions)).sessions,
              !.sorted_session_ids =
                 DedupLoop([ids |-> <<>>, seen_slugs |-> << >>, sessions |-> a.sessions],
                           TextFilter(ActiveFilter(order, a, fs, clock), a, a.sessions)).ids])

\* App::update_sort on the application record a, with `order` the result of
\* sort_session_ids; fs and clock are what is_active reads.
update_sort(a, order, fs, clock) ==
  Filtered(a,
           DedupLoop([ids |-> <<>>, seen_slugs |-> << >>, sessions |-> a.sessions], order),
           fs, clock)

\* Vec::get(idx), idx 0-based.
GetAt(seq, idx) == IF idx + 1 \in 1..Len(seq) THEN Some(seq[idx + 1]) ELSE None

\* A variant of NewIndex that does not clamp.
NewIndexUnclamped(current, delta, len) == current + delta

\* The new index of move_selection.
NewIndex(current, delta, len) ==
  IF delta > 0 THEN Min(current + delta, len - 1) ELSE Max(current - (0 - delta), 0)

SelectIndex(a, new_idx) ==
  [a EXCEPT !.list_state = Some(new_idx),
            !.selected_session = GetAt(a.sorted_session_ids, new_idx)]

\* App::move_selection(delta)
move_selection(a, delta) ==
  IF Len(a.sorted_session_ids) = 0 THEN a
  ELSE SelectIndex(a, NewIndex(UnwrapOr(a.list_state, 0), delta, Len(a.sorted_session_ids)))

\* App::select_current
select_current(a) ==
  IF IsSome(a.list_state)
  THEN [a EXCEPT !.selected_session = GetAt(a.sorted_session_ids, Get(a.list_state)),
                 !.focus = "Chat"]
  ELSE a

(***************************************************************************)
(* Bounds of the model                                                     *)
(***************************************************************************)
\* The lines the writer appends and the notifications the watcher sends in
\* Spec and SpecShrink, in SpecParse and in SpecView.
MaxWrites == 2
MaxSent == 3
ParseWrites == 1
ParseSent == 2
ViewWrites == 1
ViewSent == 1

MaxQueue == 2
MaxFilterLen == 1

\* The wall clock at startup, in seconds.
StartTime == 1000

\* Duration::from_secs(10) of App::tick
INDEX_REFRESH_SECS == 10

(***************************************************************************)
(* State                                                                   *)
(***************************************************************************)
VARIABLES
  root,                \* the root directory: "ok", "missing" or "unreadable"
  files,               \* the log file of every id
  index,               \* sessions-index.json: [state, entries]
  now,                 \* the wall clock
  sessions,            \* App.sessions
  sorted_session_ids,  \* App.sorted_session_ids
  selected_session,    \* App.selected_session
  list_state,          \* App.list_state.selected(), 0-based
  filter_mode,         \* App.filter_mode
  filter_text,         \* App.filter_text, a sequence of characters
  show_active_only,    \* App.show_active_only
  focus,               \* App.focus
  should_quit,         \* App.should_quit
  watcher,             \* App.watcher.is_some()
  last_index_refresh,  \* App.last_index_refresh
  queue,               \* the channel from the watcher callback to the controller
  events,              \* the events poll() returned that tick() has yet to handle
  pc,                  \* where run_event_loop stands
  last,                \* what the last read of log files saw and did
  writes,              \* lines the writer can still append
  sent                 \* notifications the watcher can still send

fsVars == <<root, files, index>>
appVars == <<sessions, sorted_session_ids, selected_session, list_state, filter_mode,
             filter_text, show_active_only, focus, should_quit, last_index_refresh>>
vars == <<root, files, index, now, sessions, sorted_session_ids, selected_session,
          list_state, filter_mode, filter_text, show_active_only, focus, should_quit,
          watcher, last_index_refresh, queue, events, pc, last, writes, sent>>

Fs == [root |-> root, files |-> files, index |-> index]

AppRec ==
  [sessions |-> sessions, sorted_session_ids |-> sorted_session_ids,
   selected_session |-> selected_session, list_state |-> list_state,
   filter_mode |-> filter_mode, filter_text |-> filter_text,
   show_active_only |-> show_active_only, focus |-> focus,
   should_quit |-> should_quit, last_index_refresh |-> last_index_refresh]

SetApp(a) ==
  /\ sessions' = a.sessions
  /\ sorted_session_ids' = a.sorted_session_ids
  /\ selected_session' = a.selected_session
  /\ list_state' = a.list_state
  /\ filter_mode' = a.filter_mode
  /\ filter_text' = a.filter_text
  /\ show_active_only' = a.show_active_only
  /\ focus' = a.focus
  /\ should_quit' = a.should_quit
  /\ last_index_refresh' = a.last_index_refresh

\* update_sort as a step: some result of sort_session_ids is taken.
Recompute(a, fs) ==
  \E order \in sort_session_ids(a.sessions) : SetApp(update_sort(a, order, fs, now))

NoUnits == [id \in Ids |-> <<>>]
NoLens == [id \in Ids |-> 0]

\* The record kept in `last`: the operation ("scan", "parse" or "tail"), the
\* id it was about, whether it returned Ok, the store before and after it,
\* the messages returned, the file length taken from the metadata of each
\* file read and the units read.
Observed(op, id, ok, pre, post, ret, lens, read) ==
  [op |-> op, id |-> id, ok |-> ok, pre |-> pre, post |-> post, ret |-> ret,
   file_len |-> lens, read |-> read]

\* A file after an external writer has appended units to it.
Grown(f, units) ==
  IF units = <<>> THEN f ELSE [f EXCEPT !.bytes = @ \o units, !.mtime = now]

GrownAt(fls, id, units) == [fls EXCEPT ![id] = Grown(@, units)]

(***************************************************************************)
(* The lines the external writer appends                                   *)
(***************************************************************************)
Said(toks) == Some(Body(Some(StrContent(toks)), None))

LUser ==
  RawLine("user", Some(1010), Said(<<"hello">>),
          Some("sid"), Some("main"), Some("/w"), Some("foo"), None)

LAsst ==
  RawLine("assistant", Some(1020),
          Some(Body(Some(StrContent(<<"hi">>)), Some(Usage(Some(5), Some(3), None, Some(2))))),
          Some("sid"), Some("main"), Some("/w"), Some("foo"), None)

LCmd ==
  RawLine("user", Some(1030),
          Said(<<"<", "command-name", ">", "x", "<", "/", "command-name", ">">>),
          Some("sid"), Some("main"), Some("/w"), Some("foo"), None)

LSnap ==
  RawLine("file-history-snapshot", Some(1040), None, None, None, None, None, None)

LProg == RawLine("progress", None, None, None, None, None, None, None)

\* A user line of a session that has no slug, and one with an empty slug.
LBare ==
  RawLine("user", Some(1015), Said(<<"hello">>),
          Some("sid"), Some("dev"), Some("/w"), None, None)

LEmptySlug ==
  RawLine("user", Some(1015), Said(<<" ", "hey">>),
          Some("sid"), Some("dev"), Some("/w"), Some(""), None)

\* The file the external writer appends to.
Written == "s1"

\* What the writer can append to file id while one handler reads it:
\* nothing, or a whole line.
During(id) ==
  {<<>>} \cup
  (IF id = Written /\ files[id].exists /\ writes > 0
   THEN {WholeLine(l) : l \in {LUser, LAsst}} ELSE {})

CountLines(units) == Cardinality({i \in 1..Len(units) : units[i].k \in {"tail", "nl"}})

(***************************************************************************)
(* The environment: the writer of the log files, the index, the clock and  *)
(* the watcher callback                                                    *)
(***************************************************************************)
\* A whole line is appended to an existing log file.
AppendLine(id, l) ==
  /\ files[id].exists
  /\ writes > 0
  /\ files' = GrownAt(files, id, WholeLine(l))
  /\ writes' = writes - 1
  /\ UNCHANGED <<root, index, now, appVars, watcher, queue, events, pc, last, sent>>

\* A log file is cut to its first n units, or replaced by a shorter one.
Truncate(id, n) ==
  /\ files[id].exists
  /\ n < Len(files[id].bytes)
  /\ files' = [files EXCEPT ![id] = [@ EXCEPT !.bytes = SubSeq(@, 1, n), !.mtime = now]]
  /\ UNCHANGED <<root, index, now, appVars, watcher, queue, events, pc, last, writes, sent>>

\* The index file is written, removed or damaged.
SetIndex(idx) ==
  /\ index # idx
  /\ index' = idx
  /\ UNCHANGED <<root, files, now, appVars, watcher, queue, events, pc, last, writes, sent>>

\* Time passes: the clock moves on to the instant t.
Advance(t) ==
  /\ t > now
  /\ now' = t
  /\ UNCHANGED <<fsVars, appVars, watcher, queue, events, pc, last, writes, sent>>

WatchEvent(kind, path) == [kind |-> kind, path |-> path]

\* The callback of SessionWatcher::new: an event about a .jsonl file or about
\* sessions-index.json is sent on the channel, anything else is dropped.
Notify(kind, path) ==
  /\ watcher
  /\ path.ext = "jsonl" \/ path = IndexPath
  /\ kind \in {"modified", "created"}
  /\ sent > 0
  /\ Len(queue) < MaxQueue
  /\ queue' = Append(queue, WatchEvent(kind, path))
  /\ sent' = sent - 1
  /\ UNCHANGED <<fsVars, now, appVars, watcher, events, pc, last, writes>>

(***************************************************************************)
(* app.rs: the controller.  run_event_loop draws, handles the pending      *)
(* input (pc = "input"), and when a tick is due polls the channel and      *)
(* handles the events one by one (pc = "drain"), then the periodic         *)
(* refresh.                                                                *)
(***************************************************************************)
Insert(map, id, v) == [i \in (DOMAIN map) \cup {id} |-> IF i = id THEN v ELSE map[i]]

\* A variant of TickPoll that takes only the latest notification off the
\* channel and discards the others.
TickPollLatest ==
  /\ pc = "input"
  /\ events' = IF watcher /\ queue # <<>> THEN <<queue[Len(queue)]>> ELSE <<>>
  /\ queue' = <<>>
  /\ pc' = "drain"
  /\ UNCHANGED <<fsVars, now, appVars, watcher, last, writes, sent>>

\* App::tick, first part: watcher.poll() takes everything on the channel.
TickPoll ==
  /\ pc = "input"
  /\ events' = IF watcher THEN queue ELSE <<>>
  /\ queue' = <<>>
  /\ pc' = "drain"
  /\ UNCHANGED <<fsVars, now, appVars, watcher, last, writes, sent>>

\* handle_file_modified, sessions-index.json
HandleIndexModified ==
  /\ pc = "drain" /\ events # <<>>
  /\ Head(events).kind = "modified" /\ Head(events).path = IndexPath
  /\ Recompute([AppRec EXCEPT !.sessions = refresh_index_metadata(Fs, sessions)], Fs)
  /\ events' = Tail(events)
  /\ UNCHANGED <<fsVars, now, watcher, queue, pc, last, writes, sent>>

\* A variant of TailReadDone that stores the session and leaves the visible
\* list as it is.
TailReadNoRecompute(id, r, files1, during) ==
  /\ files' = files1
  /\ writes' = writes - CountLines(during)
  /\ SetApp([AppRec EXCEPT !.sessions[id] = r.session])
  /\ last' = Observed("tail", id, r.ok, sessions, [sessions EXCEPT ![id] = r.session],
                      r.new_messages, [NoLens EXCEPT ![id] = r.file_len],
                      [NoUnits EXCEPT ![id] = files1[id].bytes])

\* handle_file_modified on the log of session id, from the result r of
\* read_new_lines on; files1 are the files once the read is over.
TailReadDone(id, r, files1, during) ==
  /\ files' = files1
  /\ writes' = writes - CountLines(during)
  /\ Recompute([AppRec EXCEPT !.sessions[id] = r.session], [Fs EXCEPT !.files = files1])
  /\ last' = Observed("tail", id, r.ok, sessions, [sessions EXCEPT ![id] = r.session],
                      r.new_messages, [NoLens EXCEPT ![id] = r.file_len],
                      [NoUnits EXCEPT ![id] = files1[id].bytes])

\* handle_file_modified, the log file of a session in the store
HandleTrackedModified ==
  /\ pc = "drain" /\ events # <<>>
  /\ Head(events).kind = "modified" /\ Head(events).path # IndexPath
  /\ Head(events).path.stem \in DOMAIN sessions
  /\ \E during \in During(Head(events).path.stem) :
       TailReadDone(Head(events).path.stem,
                    read_new_lines(sessions[Head(events).path.stem],
                                   files[Head(events).path.stem], now, during),
                    GrownAt(files, Head(events).path.stem, during), during)
  /\ events' = Tail(events)
  /\ UNCHANGED <<root, index, now, watcher, queue, pc, sent>>

\* handle_file_created from the result r of discover_single_session on.
CreatedDone(id, r, files1, during) ==
  /\ files' = files1
  /\ writes' = writes - CountLines(during)
  /\ IF r.ok /\ r.some
     THEN /\ Recompute([AppRec EXCEPT !.sessions = Insert(sessions, id, r.session)],
                       [Fs EXCEPT !.files = files1])
          /\ last' = Observed("parse", id, TRUE, sessions,
                              Insert(sessions, id, r.session), <<>>,
                              [NoLens EXCEPT ![id] = r.session.file_offset],
                              [NoUnits EXCEPT ![id] = files1[id].bytes])
     ELSE /\ UNCHANGED appVars
          /\ last' = Observed("parse", id, FALSE, sessions, sessions, <<>>, NoLens, NoUnits)

\* The units appended to the file of a path while it is parsed.
DuringPath(path) ==
  IF path.ext = "jsonl" /\ path.stem \in Ids THEN During(path.stem) ELSE {<<>>}

GrownPath(path, during) ==
  IF path.ext = "jsonl" /\ path.stem \in Ids THEN GrownAt(files, path.stem, during) ELSE files

\* handle_file_created, reached by a creation event or by a modification
\* event about a file that is not in the store
HandleCreated ==
  /\ pc = "drain" /\ events # <<>>
  /\ \/ Head(events).kind = "created"
     \/ /\ Head(events).kind = "modified" /\ Head(events).path # IndexPath
        /\ Head(events).path.stem \notin DOMAIN sessions
  /\ \E during \in DuringPath(Head(events).path) :
       CreatedDone(Head(events).path.stem,
                   discover_single_session(Head(events).path, Fs, now, during),
                   GrownPath(Head(events).path, during), during)
  /\ events' = Tail(events)
  /\ UNCHANGED <<root, index, now, watcher, queue, pc, sent>>

\* A variant of PeriodicRefresh that does not restart the timer.
PeriodicRefreshNoRestart ==
  /\ pc = "drain" /\ events = <<>>
  /\ now - last_index_refresh >= INDEX_REFRESH_SECS
  /\ Recompute([AppRec EXCEPT !.sessions = refresh_index_metadata(Fs, sessions)], Fs)
  /\ pc' = IF should_quit THEN "exit" ELSE "input"
  /\ UNCHANGED <<fsVars, now, watcher, queue, events, last, writes, sent>>

\* App::tick, last part: the refresh of the index metadata when 10 s have
\* passed, and the return to the event loop, which ends when should_quit.
PeriodicRefresh ==
  /\ pc = "drain" /\ events = <<>>
  /\ now - last_index_refresh >= INDEX_REFRESH_SECS
  /\ Recompute([AppRec EXCEPT !.sessions = refresh_index_metadata(Fs, sessions),
                              !.last_index_refresh = now], Fs)
  /\ pc' = IF should_quit THEN "exit" ELSE "input"
  /\ UNCHANGED <<fsVars, now, watcher, queue, events, last, writes, sent>>

PeriodicSkip ==
  /\ pc = "drain" /\ events = <<>>
  /\ now - last_index_refresh < INDEX_REFRESH_SECS
  /\ pc' = IF should_quit THEN "exit" ELSE "input"
  /\ UNCHANGED <<fsVars, now, appVars, watcher, queue, events, last, writes, sent>>

\* The loop ends without a further tick.
Exit ==
  /\ pc = "input" /\ should_quit
  /\ pc' = "exit"
  /\ UNCHANGED <<fsVars, now, appVars, watcher, queue, events, last, writes, sent>>

(***************************************************************************)
(* Input events.  The keys that only scroll the chat pane (G, g, PageUp,   *)
(* PageDown, and j/k while the chat pane has the focus) change nothing     *)
(* that is modelled.                                                       *)
(***************************************************************************)
InputReady == pc = "input" /\ ~should_quit

Frame == UNCHANGED <<fsVars, now, watcher, queue, events, pc, last, writes, sent>>

KeyQuit ==
  /\ InputReady /\ ~filter_mode
  /\ SetApp([AppRec EXCEPT !.should_quit = TRUE])
  /\ Frame

KeyTab ==
  /\ InputReady /\ ~filter_mode
  /\ SetApp([AppRec EXCEPT !.focus = IF @ = "Sessions" THEN "Chat" ELSE "Sessions"])
  /\ Frame

\* j, Down (delta 1) and k, Up (delta -1) with the session list focused
KeyMove(delta) ==
  /\ InputReady /\ ~filter_mode
  /\ focus = "Sessions"
  /\ SetApp(move_selection(AppRec, delta))
  /\ Frame

KeyEnter ==
  /\ InputReady /\ ~filter_mode
  /\ SetApp(select_current(AppRec))
  /\ Frame

\* refresh_all from the result r of discover_sessions on.
\* A variant of RefreshAllDone that replaces the store and leaves the
\* visible list, the selection and the cursor as they are.
RefreshAllNoRecompute(r, files1, units) ==
  /\ files' = files1
  /\ writes' = writes - CountLines(units)
  /\ IF r.ok
     THEN /\ SetApp([AppRec EXCEPT !.sessions = r.sessions])
          /\ last' = Observed("scan", "", TRUE, sessions, r.sessions, <<>>,
                              [i \in Ids |-> Len(files[i].bytes)],
                              [i \in Ids |-> files1[i].bytes])
     ELSE /\ UNCHANGED appVars
          /\ last' = Observed("scan", "", FALSE, sessions, sessions, <<>>, NoLens, NoUnits)

\* A variant of RefreshAllDone that adds the scan result to the store and
\* keeps the sessions that the scan did not find.
RefreshAllMerging(r, files1, units) ==
  /\ files' = files1
  /\ writes' = writes - CountLines(units)
  /\ IF r.ok
     THEN /\ Recompute([AppRec EXCEPT !.sessions = r.sessions @@ sessions],
                       [Fs EXCEPT !.files = files1])
          /\ last' = Observed("scan", "", TRUE, sessions, r.sessions, <<>>,
                              [i \in Ids |-> Len(files[i].bytes)],
                              [i \in Ids |-> files1[i].bytes])
     ELSE /\ UNCHANGED appVars
          /\ last' = Observed("scan", "", FALSE, sessions, sessions, <<>>, NoLens, NoUnits)

RefreshAllDone(r, files1, units) ==
  /\ files' = files1
  /\ writes' = writes - CountLines(units)
  /\ IF r.ok
     THEN /\ Recompute([AppRec EXCEPT !.sessions = r.sessions],
                       [Fs EXCEPT !.files = files1])
          /\ last' = Observed("scan", "", TRUE, sessions, r.sessions, <<>>,
                              [i \in Ids |-> Len(files[i].bytes)],
                              [i \in Ids |-> files1[i].bytes])
     ELSE /\ UNCHANGED appVars
          /\ last' = Observed("scan", "", FALSE, sessions, sessions, <<>>, NoLens, NoUnits)

\* r: App::refresh_all
KeyRefreshAll ==
  /\ InputReady /\ ~filter_mode
  /\ \E units \in During(Written) :
       RefreshAllDone(discover_sessions(Fs, now, [NoUnits EXCEPT ![Written] = units]),
                      GrownAt(files, Written, units), units)
  /\ UNCHANGED <<root, index, now, watcher, queue, events, pc, sent>>

\* a
KeyActiveOnly ==
  /\ InputReady /\ ~filter_mode
  /\ Recompute([AppRec EXCEPT !.show_active_only = ~@], Fs)
  /\ Frame

\* /
KeySlash ==
  /\ InputReady /\ ~filter_mode
  /\ SetApp([AppRec EXCEPT !.filter_mode = TRUE, !.filter_text = Some(<<>>)])
  /\ Frame

\* handle_filter_key
FilterEsc ==
  /\ InputReady /\ filter_mode
  /\ Recompute([AppRec EXCEPT !.filter_mode = FALSE, !.filter_text = None], Fs)
  /\ Frame

FilterEnter ==
  /\ InputReady /\ filter_mode
  /\ Recompute([AppRec EXCEPT !.filter_mode = FALSE], Fs)
  /\ Frame

\* text.pop() on the filter text
Popped(text) ==
  IF IsSome(text) /\ Get(text) # <<>>
  THEN Some(SubSeq(Get(text), 1, Len(Get(text)) - 1))
  ELSE text

NoneIfEmpty(text) == IF text = Some(<<>>) THEN None ELSE text

FilterBackspace ==
  /\ InputReady /\ filter_mode
  /\ Recompute([AppRec EXCEPT !.filter_text = NoneIfEmpty(Popped(@))], Fs)
  /\ Frame

FilterChar(c) ==
  /\ InputReady /\ filter_mode
  /\ Len(UnwrapOr(filter_text, <<>>)) < MaxFilterLen
  /\ Recompute([AppRec EXCEPT !.filter_text = Some(Append(UnwrapOr(@, <<>>), c))], Fs)
  /\ Frame

\* handle_mouse_event: a click in one of the two panes moves the focus; the
\* wheel over the focused session list moves the selection.
MouseDown(pane) ==
  /\ InputReady
  /\ pane \in {"Sessions", "Chat"}
  /\ SetApp([AppRec EXCEPT !.focus = pane])
  /\ Frame

MouseScroll(delta) ==
  /\ InputReady
  /\ focus = "Sessions"
  /\ SetApp(move_selection(AppRec, delta))
  /\ Frame

(***************************************************************************)
(* Startup and the specifications                                          *)
(***************************************************************************)
NoIndex == [state |-> "missing", entries |-> << >>]

\* App::new, given the scan result and the result of sort_session_ids
AppNew(scanned, order, clock) ==
  [sessions |-> scanned, sorted_session_ids |-> order,
   selected_session |-> First(order),
   list_state |-> IF order # <<>> THEN Some(0) ELSE None,
   filter_mode |-> FALSE, filter_text |-> None, show_active_only |-> FALSE,
   focus |-> "Sessions", should_quit |-> FALSE, last_index_refresh |-> clock]

InitApp(a) ==
  /\ sessions = a.sessions
  /\ sorted_session_ids = a.sorted_session_ids
  /\ selected_session = a.selected_session
  /\ list_state = a.list_state
  /\ filter_mode = a.filter_mode
  /\ filter_text = a.filter_text
  /\ show_active_only = a.show_active_only
  /\ focus = a.focus
  /\ should_quit = a.should_quit
  /\ last_index_refresh = a.last_index_refresh

\* The state after App::new on the file system fs0, r being the result of
\* discover_sessions and w whether the watcher could be started; nw lines
\* can be appended and ns notifications sent from then on.
InitScan(fs0, w, r, nw, ns) ==
  /\ r.ok
  /\ root = fs0.root /\ files = fs0.files /\ index = fs0.index
  /\ now = StartTime
  /\ \E order \in sort_session_ids(r.sessions) : InitApp(AppNew(r.sessions, order, StartTime))
  /\ watcher = w
  /\ queue = <<>> /\ events = <<>> /\ pc = "input"
  /\ last = Observed("scan", "", TRUE, << >>, r.sessions, <<>>,
                     [i \in Ids |-> Len(fs0.files[i].bytes)],
                     [i \in Ids |-> fs0.files[i].bytes])
  /\ writes = nw /\ sent = ns

\* The state after construction on one of the file systems of fsSet.
InitOn(fsSet, nw, ns) ==
  \E fs0 \in fsSet, w \in BOOLEAN :
    InitScan(fs0, w, discover_sessions(fs0, StartTime, NoUnits), nw, ns)

\* The content of a log file: the given lines, or no file for None.
FileOf(b) == IF IsSome(b) THEN File(WholeLines(Get(b)), StartTime) ELSE NoFile

\* The file system with the given content of the log files s1, S2 and s3
\* and the given index.
FsOf(b1, b2, b3, idx) ==
  [root |-> "ok", index |-> idx,
   files |-> [i \in Ids |->
                FileOf(CASE i = "s1" -> b1 [] i = "S2" -> b2 [] i = "s3" -> b3
                         [] OTHER -> None)]]

\* The instant the clock can move on to: the periodic refresh is due then,
\* and a file untouched since startup is no longer active.
Instants == {StartTime + ACTIVE_THRESHOLD_SECS}

(***************************************************************************)
(* Spec: two sessions, an external writer that appends whole lines to the  *)
(* log of s1, the watcher and the controller's handlers.                   *)
(***************************************************************************)
TailFs == {FsOf(Some(<<>>), Some(<<LUser>>), None, NoIndex)}

Init == InitOn(TailFs, MaxWrites, MaxSent)

TailLines == {LUser, LAsst, LCmd, Undecodable}

NextTail ==
  \/ TickPoll
  \/ HandleIndexModified
  \/ HandleTrackedModified
  \/ HandleCreated
  \/ PeriodicSkip
  \/ KeyRefreshAll
  \/ \E l \in TailLines : AppendLine(Written, l)
  \/ \E kind \in {"modified", "created"} : Notify(kind, LogPath(Written))
  \/ Notify("modified", IndexPath)

Next == NextTail

Spec == Init /\ [][Next]_vars

(***************************************************************************)
(* SpecShrink: as Spec, and the log of s1 can also be cut or replaced by a *)
(* shorter file.                                                           *)
(***************************************************************************)
NextShrink ==
  \/ NextTail
  \/ \E n \in {0, 2} : Truncate(Written, n)

SpecShrink == Init /\ [][NextShrink]_vars

(***************************************************************************)
(* Properties of the log readers                                           *)
(***************************************************************************)
\* The lines of a sequence of units, and those of them the parser retains.
LinesOf(units) == ReadLines(units, 1, <<>>)

Kept(lines) == SelectSeq(lines, LAMBDA l : IsSome(parse_line(l, 0)))

\* What identifies a message in a list: its type and its content.
Shown(msgs) == [i \in 1..Len(msgs) |-> <<msgs[i].msg_type, msgs[i].content>>]

ParsedOf(lines) == [i \in 1..Len(lines) |-> Get(parse_line(lines[i], 0))]

ShownOf(units) == Shown(ParsedOf(Kept(LinesOf(units))))

IsPrefix(s, t) == Len(s) <= Len(t) /\ SubSeq(t, 1, Len(s)) = s

\* C1: while a writer appends whole lines to a log file and the file is
\* discovered and tailed, the messages of its session are the retained lines
\* of the file, or of the part of it read so far, in file order and each of
\* them once.
C1_MessagesAreRetainedLines ==
  \A id \in DOMAIN sessions :
    files[id].exists =>
      \E n \in 0..Len(files[id].bytes) :
        Shown(sessions[id].messages) = ShownOf(SubSeq(files[id].bytes, 1, n))

C3_OffsetIsObservedLength ==
  (last.op = "tail" /\ last.ok) =>
     last.post[last.id].file_offset = last.file_len[last.id]

\* C3: after a successful tail read the file_offset is the larger of the
\* previous offset and the length of the file that the read observed.
C3_OffsetIsMaxOfOffsetAndLength ==
  (last.op = "tail" /\ last.ok) =>
     last.post[last.id].file_offset =
       Max(last.pre[last.id].file_offset, last.file_len[last.id])

\* A tail read has found the file longer than the offset.
C3_Witness ==
  /\ last.op = "tail" /\ last.ok
  /\ last.file_len[last.id] > last.pre[last.id].file_offset
  /\ last.ret # <<>>

\* The result r of a tail read that found nothing new and changed nothing.
NothingNew(r, session) == r.ok /\ r.new_messages = <<>> /\ r.session = session

\* C4: a tail read of a file that is not longer than the file_offset returns
\* no message and leaves the session as it was, and so does the same read
\* again.
C4_NoGrowthNoChange ==
  (last.op = "tail" /\ last.ok
   /\ last.file_len[last.id] <= last.pre[last.id].file_offset) =>
     /\ last.ret = <<>>
     /\ last.post[last.id] = last.pre[last.id]
     /\ NothingNew(read_new_lines(last.post[last.id],
                                  File(SubSeq(last.read[last.id], 1, last.file_len[last.id]), 0),
                                  now, <<>>),
                   last.pre[last.id])

\* A tail read of a file with messages that has not grown since the last
\* read.
C4_Witness ==
  /\ last.op = "tail" /\ last.ok
  /\ last.file_len[last.id] = last.pre[last.id].file_offset
  /\ last.pre[last.id].messages # <<>>
  /\ last.post[last.id] = last.pre[last.id]

\* The units of a file after the first n.
After(units, n) == SubSeq(units, n + 1, Len(units))

\* C5: when whole lines have been appended to a file of the store since the
\* last read of it and then a tail read runs with no write during it, the
\* read returns the retained ones of the appended lines in order, appends
\* them to the session and moves the file_offset to the length of the file.
C5_TailReturnsAppendedLines ==
  [][(/\ last' # last /\ last'.op = "tail" /\ last'.ok
      /\ last.ok /\ last.id \in {"", last'.id}
      /\ files' = files
      /\ IsPrefix(last.read[last'.id], files[last'.id].bytes)
      /\ Len(last.read[last'.id]) < Len(files[last'.id].bytes)) =>
       /\ Shown(last'.ret) = ShownOf(After(files[last'.id].bytes, Len(last.read[last'.id])))
       /\ last'.post[last'.id].messages = last'.pre[last'.id].messages \o last'.ret
       /\ last'.post[last'.id].file_offset = Len(files[last'.id].bytes)]_vars

\* The token counts of a list of messages, an absent one being 0.
TokensInOf(msgs) == [i \in 1..Len(msgs) |-> UnwrapOr(msgs[i].tokens_in, 0)]
TokensOutOf(msgs) == [i \in 1..Len(msgs) |-> UnwrapOr(msgs[i].tokens_out, 0)]

\* C6: for every session of the store, total_tokens_in and total_tokens_out
\* are the sums of tokens_in and tokens_out over its messages, an absent
\* count being 0.
C6_TokenTotalsAreSums ==
  \A id \in DOMAIN sessions :
    /\ sessions[id].total_tokens_in = SumSeq(TokensInOf(sessions[id].messages))
    /\ sessions[id].total_tokens_out = SumSeq(TokensOutOf(sessions[id].messages))

\* A tail read has returned a message with token counts to a session that
\* already had messages.
C6_Witness ==
  /\ last.op = "tail" /\ last.ok
  /\ last.pre[last.id].messages # <<>>
  /\ \E i \in 1..Len(last.ret) : IsSome(last.ret[i].tokens_out)
  /\ last.id \in DOMAIN sessions
  /\ sessions[last.id].total_tokens_out > 0

(***************************************************************************)
(* SpecParse: startup on a log file of up to MaxLines lines of every kind, *)
(* then full parses of it by forced refreshes and creation notifications.  *)
(***************************************************************************)
MaxLines == 2

\* An assistant line with a text block and a tool_use block, a user line
\* whose content is blank, and a summary line.
LTool ==
  RawLine("assistant", Some(1025),
          Some(Body(Some(ArrContent(<<TextBlock(<<" ", "run">>), ToolUseBlock(Some("Bash"))>>)),
                    Some(Usage(Some(1), None, Some(4), None)))),
          Some("sid"), Some("main"), Some("/w"), Some("foo"), None)

LEmpty ==
  RawLine("user", Some(1035), Said(<<" ">>),
          Some("sid"), Some("main"), Some("/w"), Some("foo"), None)

LSummary == RawLine("summary", None, None, None, None, None, None, Some("sum"))

ParseLines ==
  {LUser, LAsst, LCmd, LSnap, LProg, LTool, LEmpty, LSummary, Undecodable, BlankLine}

SeqsUpTo(S, n) == UNION {[1..k -> S] : k \in 0..n}

ParseFs == {FsOf(Some(ls), None, None, NoIndex) : ls \in SeqsUpTo(ParseLines, MaxLines)}

InitParse == InitOn(ParseFs, ParseWrites, ParseSent)

NextParse ==
  \/ TickPoll
  \/ HandleCreated
  \/ PeriodicSkip
  \/ KeyRefreshAll
  \/ Notify("created", LogPath(Written))

SpecParse == InitParse /\ [][NextParse]_vars

\* The retention rule: the line decodes, its type is not one of the two
\* dropped ones, and its rendered content is neither empty nor "[command]".
RetainedRule(l) ==
  /\ l.json
  /\ l.type \notin {"file-history-snapshot", "queue-operation"}
  /\ TypedMessage(l, 0).content \notin {"", "[command]"}

RenderedOf(lines) ==
  [i \in 1..Len(lines) |-> <<TypedMessage(lines[i], 0).msg_type, TypedMessage(lines[i], 0).content>>]

\* The sessions a full parse has produced.
ParsedIds == IF last.op = "parse" THEN {last.id} ELSE DOMAIN last.post

\* C7: a full parse of a log file gives as many messages as the file has
\* lines that the retention rule keeps, and the messages are those lines in
\* file order; lines that do not decode and blank lines add nothing and do
\* not end the parse.
C7_FullParseKeepsRetainedLines ==
  (last.op \in {"scan", "parse"} /\ last.ok) =>
    \A id \in ParsedIds :
      /\ Len(last.post[id].messages)
           = Cardinality({i \in 1..Len(LinesOf(last.read[id])) :
                            RetainedRule(LinesOf(last.read[id])[i])})
      /\ Shown(last.post[id].messages)
           = RenderedOf(SelectSeq(LinesOf(last.read[id]), RetainedRule))

\* A full parse of a file whose first line does not decode or is blank and
\* that has a retained line after it.
C7_Witness ==
  /\ last.op = "parse" /\ last.ok
  /\ Len(LinesOf(last.read[last.id])) >= 2
  /\ ~LinesOf(last.read[last.id])[1].json
  /\ last.post[last.id].messages # <<>>

(***************************************************************************)
(* SpecView: startup on three sessions, two of which share a slug; then    *)
(* the writer, the clock, the notifications and the keys that recompute    *)
(* the visible list or move the selection.                                 *)
(***************************************************************************)
IndexOf(entries) == [state |-> "ok", entries |-> entries]

IdxT1 == IndexOf("s1" :> IndexEntry(Some("T"), None, None, None))
IdxT2 == IndexOf("S2" :> IndexEntry(Some("T"), Some("sum"), None, None))

\* Two sessions that share the slug foo, the older one titled in the index,
\* beside a session with no slug.
ViewFs == {FsOf(Some(<<LUser>>), Some(<<LUser, LAsst>>), Some(<<LBare>>), IdxT1)}

InitView == InitOn(ViewFs, ViewWrites, ViewSent)

FilterChars == {"f"}

NextView ==
  \/ TickPoll
  \/ HandleTrackedModified
  \/ HandleCreated
  \/ PeriodicRefresh
  \/ PeriodicSkip
  \/ KeyRefreshAll
  \/ KeyActiveOnly
  \/ KeySlash
  \/ FilterEsc
  \/ FilterEnter
  \/ FilterBackspace
  \/ \E c \in FilterChars : FilterChar(c)
  \/ \E delta \in {-1, 1} : KeyMove(delta)
  \/ AppendLine(Written, LTool)
  \/ \E kind \in {"modified", "created"} : Notify(kind, LogPath(Written))
  \/ \E t \in Instants : Advance(t)

SpecView == InitView /\ [][NextView]_vars

(***************************************************************************)
(* SpecTitles: startup on two or three sessions that share the slug foo,   *)
(* one of them titled in the index, or on two sessions with an empty slug; *)
(* then the writer, tail reads and forced refreshes, each of which         *)
(* recomputes the visible list.                                            *)
(***************************************************************************)
TitlesFs ==
  {FsOf(Some(<<LUser>>), Some(<<LUser, LAsst>>), b3, idx) :
     b3 \in {None, Some(<<LUser>>)}, idx \in {IdxT1, IdxT2}}
  \cup {FsOf(Some(<<LEmptySlug>>), Some(<<LEmptySlug>>), None, NoIndex)}

InitTitles == InitOn(TitlesFs, ViewWrites, ViewSent)

NextTitles ==
  \/ TickPoll
  \/ HandleTrackedModified
  \/ PeriodicSkip
  \/ KeyRefreshAll
  \/ AppendLine(Written, LTool)
  \/ Notify("modified", LogPath(Written))

SpecTitles == InitTitles /\ [][NextTitles]_vars

(***************************************************************************)
(* Properties of the visible list                                          *)
(***************************************************************************)
NonEmptySlug(s) == IsSome(s.slug) /\ Get(s.slug) # ""

\* The ids of a sorted list that no earlier id of the list hides: an id is
\* hidden when an earlier one has the same non-empty slug.
Unhidden(order, store) ==
  SelectSeq(order,
            LAMBDA id : ~\E j \in 1..Len(order) :
                           /\ j < Position(order, id)[1] + 1
                           /\ NonEmptySlug(store[id])
                           /\ store[order[j]].slug = store[id].slug)

\* C8: in every state, the startup state included, the visible list with no
\* filter set is the sorted store without the sessions that an earlier
\* session with the same non-empty slug hides; a session with no slug or an
\* empty one is never hidden.
C8_VisibleIsSortedStoreDeduplicated ==
  (~show_active_only /\ filter_text = None) =>
    \E order \in sort_session_ids(sessions) :
      sorted_session_ids = Unhidden(order, sessions)

\* C8, its last part: with no filter set, a session with no slug or an empty
\* one is in the visible list.
C8_NoSlugNeverHidden ==
  (~show_active_only /\ filter_text = None) =>
    \A id \in DOMAIN sessions :
      ~NonEmptySlug(sessions[id]) => id \in Range(sorted_session_ids)

\* C10: the visible list names sessions of the store in the order of
\* non-increasing last_activity.
C10_VisibleSortedByActivity ==
  /\ Range(sorted_session_ids) \subseteq DOMAIN sessions
  /\ \A i, j \in 1..Len(sorted_session_ids) :
       i < j => sessions[sorted_session_ids[i]].last_activity
                  >= sessions[sorted_session_ids[j]].last_activity

\* A tail read has moved a session to the head of the visible list, before
\* a session that was active earlier.
C10_Witness ==
  /\ last.op = "tail" /\ last.ok /\ last.ret # <<>>
  /\ Len(sorted_session_ids) >= 2
  /\ sorted_session_ids[1] = last.id
  /\ sessions[sorted_session_ids[1]].last_activity
       > sessions[sorted_session_ids[2]].last_activity

\* The record of the application with no filter set and the given store.
Unfiltered(store) ==
  [AppRec EXCEPT !.sessions = store, !.show_active_only = FALSE, !.filter_text = None]

\* x and y are two sessions of the store with the same slug, and one of the
\* two has a custom title.
OneTitledPair(store, x, y) ==
  /\ x # y
  /\ IsSome(store[x].slug) /\ store[x].slug = store[y].slug
  /\ IsSome(store[x].custom_title) /\ IsNone(store[y].custom_title)

\* After the recompute that gave a, one of x and y is visible and has the
\* given title.
OneVisibleTitled(a, x, y, title) ==
  \E v \in {x, y} :
    /\ Range(a.sorted_session_ids) \cap {x, y} = {v}
    /\ a.sessions[v].custom_title = title

\* The stores a recompute has been or can be applied to: the store, and the
\* store as the last read of a log file left it.
Stores == {sessions, last.post}

\* C9 as stated: for two sessions that share a slug and of which one has a
\* custom title, a recompute with no filter set leaves one of them visible,
\* with that title.
C9_OneOfPairVisibleWithTitle ==
  \A store \in Stores : \A order \in sort_session_ids(store) :
    \A x, y \in DOMAIN store :
      OneTitledPair(store, x, y) =>
        OneVisibleTitled(update_sort(Unfiltered(store), order, Fs, now),
                         x, y, store[x].custom_title)

\* C9: for two sessions that share a slug no third session has, and of which
\* one has a custom title, a recompute with no filter set leaves one of them
\* visible, with that title, whichever of the two sorts first.
C9_OneOfOnlyPairVisibleWithTitle ==
  \A store \in Stores : \A order \in sort_session_ids(store) :
    \A x, y \in DOMAIN store :
      (/\ OneTitledPair(store, x, y)
       /\ \A z \in DOMAIN store : store[z].slug = store[x].slug => z \in {x, y}) =>
        OneVisibleTitled(update_sort(Unfiltered(store), order, Fs, now),
                         x, y, store[x].custom_title)

\* A recompute has hidden the titled one of two sessions with the same slug
\* and given its title to the other, which is visible.
C9_Witness ==
  \E x, y \in DOMAIN sessions :
    /\ OneTitledPair(last.post, x, y)
    /\ \A z \in DOMAIN sessions : sessions[z].slug = sessions[x].slug => z \in {x, y}
    /\ last.pre # << >>
    /\ Range(sorted_session_ids) = {y}
    /\ sessions[y].custom_title = sessions[x].custom_title


(***************************************************************************)
(* SpecFilter: startup on the three sessions of SpecView, the summary of   *)
(* S2 being "U" in the index; then the keys of the text filter, the        *)
(* active-only key, the selection keys and the clock.                      *)
(***************************************************************************)
IdxFilter ==
  IndexOf(("s1" :> IndexEntry(Some("T"), None, None, None))
          @@ ("S2" :> IndexEntry(None, Some("U"), None, None)))

FilterFs == {FsOf(Some(<<LUser>>), Some(<<LUser, LAsst>>), Some(<<LBare>>), IdxFilter)}

InitFilter == InitOn(FilterFs, 0, 0)

\* The characters typed into the filter: "s" is in the ids s1 and s3 and,
\* but for its case, in the id S2; "U" is the summary of S2; "t" is, but for
\* its case, the title T; "z" is in no name, id or summary.
FilterKeys == {"s", "U", "t", "z"}

NextFilter ==
  \/ KeySlash
  \/ FilterEsc
  \/ FilterEnter
  \/ FilterBackspace
  \/ \E c \in FilterKeys : FilterChar(c)
  \/ KeyActiveOnly
  \/ \E delta \in {-1, 1} : KeyMove(delta)
  \/ \E delta \in {-1, 1} : MouseScroll(delta)
  \/ \E t \in Instants : Advance(t)

SpecFilter == InitFilter /\ [][NextFilter]_vars

(***************************************************************************)
(* Properties of the filters and of the selection                          *)
(***************************************************************************)
\* A step of a key that recomputes the visible list: a filter key that
\* changes the filter text or leaves the filter mode, or the active-only key.
KeyRecomputed ==
  \/ filter_mode /\ filter_text' # filter_text
  \/ filter_mode /\ ~filter_mode'
  \/ show_active_only' # show_active_only

\* The ids that the deduplication keeps of a sorted list.
Deduplicated(store, order) ==
  DedupLoop([ids |-> <<>>, seen_slugs |-> << >>, sessions |-> store], order).ids

\* f is, case aside, a substring of the characters hay.
InsensitiveIn(hay, f) == Contains(to_lowercase(hay), to_lowercase(f))

\* The text match as the claim has it: on the display name, on the raw id or
\* on the summary, the case never counting.
MatchesInsensitively(s, f) ==
  \/ InsensitiveIn(display_name(s), f)
  \/ InsensitiveIn(Chars(s.id), f)
  \/ InsensitiveIn(Chars(UnwrapOr(s.summary, "")), f)

\* The file of the session was modified less than 5 minutes before clock.
Recent(f, clock) == f.exists /\ f.mtime <= clock /\ clock - f.mtime < 300

\* The ids of a deduplicated list that pass the active-only predicate, when
\* the flag is on, and the filter f.
PassingIds(ids, store, active_only, f, fls, clock) ==
  SelectSeq(ids, LAMBDA id : /\ active_only => Recent(fls[id], clock)
                             /\ MatchesInsensitively(store[id], f))

\* C11: when a key has recomputed the visible list with a filter text set,
\* the list holds the deduplicated sessions that pass the active-only
\* predicate, if that flag is on, and whose display name, raw id or summary
\* contains the filter text, case aside.
C11_FilterMatchesCaseInsensitively ==
  [][(KeyRecomputed /\ IsSome(filter_text')) =>
       \E order \in sort_session_ids(sessions) :
         sorted_session_ids' =
           PassingIds(Deduplicated(sessions, order), sessions', show_active_only',
                      Get(filter_text'), files, now)]_vars

\* The selection rule of a recompute as the claim has it, from the selection
\* sel before it to the selection sel1 and the cursor cur1 after it, ids
\* being the new visible list.
SelectionRule(sel, ids, sel1, cur1) ==
  IF IsSome(sel) /\ Get(sel) \in Range(ids)
  THEN sel1 = sel /\ cur1 = Position(ids, Get(sel))
  ELSE IF ids # <<>>
       THEN sel1 = First(ids) /\ cur1 = Some(0)
       ELSE sel1 = None /\ cur1 = None

\* C12: after every recompute of the visible list the selected id is the one
\* selected before if the new list has it, the cursor being its new index;
\* otherwise the first id of a non-empty list with the cursor 0; otherwise
\* the selection and the cursor are cleared.
C12_SelectionFollowsRecompute ==
  [][KeyRecomputed =>
       SelectionRule(selected_session, sorted_session_ids',
                     selected_session', list_state')]_vars

\* The application record once the filter text f is set, and once the filter
\* is cleared, both followed by the recompute with the given order.
WithFilter(a, f, order) ==
  update_sort([a EXCEPT !.filter_mode = TRUE, !.filter_text = Some(f)], order, Fs, now)

FilterCleared(a, order) ==
  update_sort([a EXCEPT !.filter_mode = FALSE, !.filter_text = None], order, Fs, now)

\* The visible list and the selection of a are those of the state.
SameView(a) ==
  /\ a.sorted_session_ids = sorted_session_ids
  /\ a.selected_session = selected_session

\* a1 is the record under a filter that matches nothing; clearing the filter
\* gives back the list and the selection of the state.
EmptiedThenRestored(a1) ==
  /\ a1.sorted_session_ids = <<>>
  /\ a1.selected_session = None
  /\ \A order \in sort_session_ids(a1.sessions) : SameView(FilterCleared(a1, order))

\* The filter texts that match no session.
NoMatchFilters == {<<"z">>}

\* C13: in a state with no filter whose visible list is the recomputed one
\* and has the selected id, setting a filter that matches no session empties
\* the list and clears the selection, and clearing the filter then gives the
\* same list and the same selected id again.
C13_FilterRoundTrip ==
  (/\ filter_text = None /\ ~filter_mode
   /\ IsSome(selected_session) /\ Get(selected_session) \in Range(sorted_session_ids)
   /\ \E order \in sort_session_ids(sessions) :
        update_sort(AppRec, order, Fs, now).sorted_session_ids = sorted_session_ids) =>
    \A f \in NoMatchFilters : \A order \in sort_session_ids(sessions) :
      EmptiedThenRestored(WithFilter(AppRec, f, order))

(***************************************************************************)
(* SpecNotify: startup on the sessions s1 and S2 beside the log of a       *)
(* sub-agent; the log of s3 is created later.  The watcher reports         *)
(* modifications and creations of the three logs, of the sub-agent's log   *)
(* and of the index, and the controller handles them.                      *)
(***************************************************************************)
NotifyWrites == 2
NotifySent == 2

\* The file system fs with the content b for the log file of id.
FsWith(fs, id, b) == [fs EXCEPT !.files[id] = FileOf(b)]

NotifyFs ==
  {FsWith(FsOf(Some(<<LUser>>), Some(<<LUser, LAsst>>), None, IdxT1),
          "agent-1", Some(<<LUser>>))}

InitNotify == InitOn(NotifyFs, NotifyWrites, NotifySent)

\* The external tool starts a log file with the given lines.
CreateFile(id, ls) ==
  /\ ~files[id].exists
  /\ writes > 0
  /\ files' = [files EXCEPT ![id] = File(WholeLines(ls), now)]
  /\ writes' = writes - 1
  /\ UNCHANGED <<root, index, now, appVars, watcher, queue, events, pc, last, sent>>

NotifyPaths == {LogPath("s1"), LogPath("s3"), LogPath("agent-1"), IndexPath}

NextNotify ==
  \/ TickPoll
  \/ HandleIndexModified
  \/ HandleTrackedModified
  \/ HandleCreated
  \/ PeriodicSkip
  \/ CreateFile("s3", <<LBare>>)
  \/ AppendLine(Written, LTool)
  \/ SetIndex(IdxT2)
  \/ \E kind \in {"modified", "created"}, path \in NotifyPaths : Notify(kind, path)

SpecNotify == InitNotify /\ [][NextNotify]_vars

(***************************************************************************)
(* Properties of the handling of notifications                             *)
(***************************************************************************)
\* The application record after a step.
AppRecNext ==
  [sessions |-> sessions', sorted_session_ids |-> sorted_session_ids',
   selected_session |-> selected_session', list_state |-> list_state',
   filter_mode |-> filter_mode', filter_text |-> filter_text',
   show_active_only |-> show_active_only', focus |-> focus',
   should_quit |-> should_quit', last_index_refresh |-> last_index_refresh']

\* The step ends with the recompute of the visible list on the store given.
RecomputedOn(store) ==
  \E order \in sort_session_ids(store) :
    AppRecNext = update_sort([AppRec EXCEPT !.sessions = store], order,
                             [root |-> root', files |-> files', index |-> index'], now)

\* The step leaves the store, the visible list and the selection as they are.
ViewUnchanged ==
  /\ sessions' = sessions
  /\ sorted_session_ids' = sorted_session_ids
  /\ selected_session' = selected_session
  /\ list_state' = list_state

\* Rule 1: the metadata refresh, then the recompute; no log file is read.
IndexRule ==
  /\ last' = last
  /\ RecomputedOn(refresh_index_metadata(Fs, sessions))

\* Rule 2: the tail read of the one session id, which appends what it
\* returns, then the recompute.
TailRule(id) ==
  /\ last'.op = "tail" /\ last'.id = id /\ last'.pre = sessions
  /\ DOMAIN last'.post = DOMAIN sessions
  /\ \A other \in DOMAIN sessions \ {id} : last'.post[other] = sessions[other]
  /\ last'.post[id].messages = sessions[id].messages \o last'.ret
  /\ last'.post[id].file_offset >= sessions[id].file_offset
  /\ RecomputedOn(last'.post)

\* Rule 3: the discovery of the one session of a path: on success the parsed
\* session is in the store, the other sessions as they were, and the
\* recompute follows; a path that is no log path and a parse that fails
\* leave the store, the visible list and the selection as they are.
CreationRule(path) ==
  /\ last'.op = "parse" /\ last'.id = path.stem /\ last'.pre = sessions
  /\ last'.ok <=> (path.ext = "jsonl" /\ CanOpen(FileAt(Fs, path)))
  /\ IF last'.ok
     THEN /\ DOMAIN last'.post = (DOMAIN sessions) \cup {path.stem}
          /\ \A other \in DOMAIN sessions \ {path.stem} :
               last'.post[other] = sessions[other]
          /\ Shown(last'.post[path.stem].messages) = ShownOf(last'.read[path.stem])
          /\ last'.post[path.stem].file_offset = last'.file_len[path.stem]
          /\ RecomputedOn(last'.post)
     ELSE ViewUnchanged

\* The rule for the notification e, given the store.
RuleFor(e) ==
  IF e.kind = "modified" /\ e.path = IndexPath THEN IndexRule
  ELSE IF e.kind = "modified" /\ e.path.stem \in DOMAIN sessions THEN TailRule(e.path.stem)
  ELSE CreationRule(e.path)

\* C14: every notification is handled by the one rule for it: the index
\* modified, by the metadata refresh and the recompute; the log of a session
\* in the store modified, by the tail read of that session and the
\* recompute; another log modified, or any file created, by the discovery
\* of that one session, inserted when it succeeds and then followed by the
\* recompute, the store, the visible list and the selection staying as they
\* are for a path that is no log path and for a parse that fails.
C14_OneRulePerNotification ==
  [][(pc = "drain" /\ events # <<>> /\ events' = Tail(events)) => RuleFor(Head(events))]_vars

\* The controller has handled a modification of a log that was not in the
\* store as a creation: the session is in the store and in the visible list.
C14_Witness ==
  /\ last.op = "parse" /\ last.ok /\ last.id = "s3"
  /\ "s3" \notin DOMAIN last.pre
  /\ "s3" \in DOMAIN sessions
  /\ "s3" \in Range(sorted_session_ids)
  /\ "s1" \in DOMAIN sessions /\ sessions["s1"].custom_title = Some("T")

\* C15: no session whose id starts with "agent-" is in the store or in the
\* visible list.
C15_NoSubagentSession ==
  /\ \A id \in DOMAIN sessions : ~starts_with_agent(id)
  /\ \A i \in 1..Len(sorted_session_ids) : ~starts_with_agent(sorted_session_ids[i])

(***************************************************************************)
(* SpecMeta: startup on the sessions s1 and S2, with or without a watcher; *)
(* the index is rewritten while the clock moves, and the controller        *)
(* refreshes the metadata on notifications about the index and every 10 s. *)
(***************************************************************************)
MetaSent == 1

\* An index whose entry for s1 has an empty title and an empty summary, and
\* one that gives s1 the title U and the summary sum.
IdxEmpty == IndexOf("s1" :> IndexEntry(Some(""), Some(""), None, None))
IdxU == IndexOf("s1" :> IndexEntry(Some("U"), Some("sum"), None, None))

MetaFs == {FsOf(Some(<<LBare>>), Some(<<LUser>>), None, IdxT1)}

InitMeta == InitOn(MetaFs, 0, MetaSent)

\* An index whose entry for s1 has a branch and a project path of its own,
\* and an index file that does not parse, with the same text otherwise.
IdxMoved == IndexOf("s1" :> IndexEntry(Some("U"), None, Some("main"), Some("/x")))
IdxBad == [state |-> "malformed", entries |-> IdxMoved.entries]

MetaIndexes == {IdxT1, IdxU, IdxEmpty, NoIndex, IdxMoved, IdxBad}

\* The instants of SpecMeta: 9 s, 10 s and 20 s after startup.
MetaInstants == {StartTime + 9, StartTime + INDEX_REFRESH_SECS, StartTime + 20}

NextMeta ==
  \/ TickPoll
  \/ HandleIndexModified
  \/ PeriodicRefresh
  \/ PeriodicSkip
  \/ \E idx \in MetaIndexes : SetIndex(idx)
  \/ Notify("modified", IndexPath)
  \/ \E t \in MetaInstants : Advance(t)

SpecMeta == InitMeta /\ [][NextMeta]_vars

(***************************************************************************)
(* Properties of the metadata refresh                                      *)
(***************************************************************************)
\* An optional string that is present and not empty.
SetNonEmpty(o) == IsSome(o) /\ Get(o) # ""

\* C16: over the steps that read no log file, the metadata refreshes among
\* them, a custom title or summary that is set and not empty stays set and
\* not empty.
C16_RefreshNeverEmptiesField ==
  [][last' = last =>
       \A id \in (DOMAIN sessions) \cap (DOMAIN sessions') :
         /\ SetNonEmpty(sessions[id].custom_title) => SetNonEmpty(sessions'[id].custom_title)
         /\ SetNonEmpty(sessions[id].summary) => SetNonEmpty(sessions'[id].summary)]_vars

\* C20: a tick ends, once the notifications of its batch are handled, with
\* the periodic refresh if 10 s or more have passed since the timer was
\* started (the metadata refresh, the recompute, the timer restarted at now),
\* with or without a watcher and whatever the batch was; if less than 10 s
\* have passed, nothing of the application changes.
C20_PeriodicRefreshEvery10s ==
  [][(pc = "drain" /\ pc' # "drain") =>
       IF now - last_index_refresh >= 10
       THEN /\ last_index_refresh' = now
            /\ \E order \in sort_session_ids(refresh_index_metadata(Fs, sessions)) :
                 AppRecNext =
                   update_sort([AppRec EXCEPT
                                  !.sessions = refresh_index_metadata(Fs, sessions),
                                  !.last_index_refresh = now],
                               order, Fs, now)
       ELSE UNCHANGED appVars]_vars

\* With no watcher, a second periodic refresh has run 10 s after the first
\* and has brought a title that was written to the index in between.
C20_Witness ==
  /\ ~watcher
  /\ pc = "input"
  /\ now = StartTime + 20
  /\ last_index_refresh = now
  /\ "s1" \in DOMAIN sessions /\ sessions["s1"].custom_title = Some("U")

(***************************************************************************)
(* SpecActive: startup on three sessions with different slugs; the writer  *)
(* appends to the log of s1, the log of s3 is removed, the clock moves and *)
(* the user switches the active-only filter on and off.                    *)
(***************************************************************************)
ActiveWrites == 1

ActiveFs == {FsOf(Some(<<LBare>>), Some(<<LUser>>), Some(<<LBare>>), NoIndex)}

InitActive == InitOn(ActiveFs, ActiveWrites, 0)

\* The instants of SpecActive: 10 s, just under and exactly 5 minutes, and
\* 590 s and 600 s after startup.
ActiveInstants ==
  {StartTime + 10, StartTime + 299, StartTime + 300, StartTime + 590, StartTime + 600}

\* A log file is removed: its metadata can no longer be read.
RemoveFile(id) ==
  /\ files[id].exists
  /\ files' = [files EXCEPT ![id] = NoFile]
  /\ UNCHANGED <<root, index, now, appVars, watcher, queue, events, pc, last, writes, sent>>

NextActive ==
  \/ KeyActiveOnly
  \/ AppendLine(Written, LAsst)
  \/ RemoveFile("s3")
  \/ \E t \in ActiveInstants : Advance(t)

SpecActive == InitActive /\ [][NextActive]_vars

ScanWrites == 1

\* A file that exists and cannot be opened for reading.
Unreadable(f) == [f EXCEPT !.readable = FALSE]

IdxScan == IndexOf("S2" :> IndexEntry(Some("T"), Some("sum"), Some("main"), Some("/w")))

NoFiles == [i \in Ids |-> NoFile]

\* The root with the two logs, that of S2 unreadable, with and without an
\* index entry for S2; and no root at all.
LockedFs(idx) ==
  [FsOf(Some(<<LUser>>), Some(<<LUser>>), None, idx)
     EXCEPT !.files["S2"] = Unreadable(@)]

ScanFs ==
  {LockedFs(IdxScan), LockedFs(NoIndex),
   [root |-> "missing", index |-> NoIndex, files |-> NoFiles]}

InitScanSpec == InitOn(ScanFs, ScanWrites, 0)

\* The root directory loses or regains its read permission; the files in it
\* can still be opened by their paths.
SetRoot(r) ==
  /\ root # "missing" /\ r # "missing" /\ root # r
  /\ root' = r
  /\ UNCHANGED <<files, index, now, appVars, watcher, queue, events, pc, last, writes, sent>>

\* The root directory is removed with all that is in it.
RemoveRoot ==
  /\ root # "missing"
  /\ root' = "missing" /\ files' = NoFiles /\ index' = NoIndex
  /\ UNCHANGED <<now, appVars, watcher, queue, events, pc, last, writes, sent>>

NextScan ==
  \/ KeyRefreshAll
  \/ \E r \in {"ok", "unreadable"} : SetRoot(r)
  \/ RemoveRoot
  \/ AppendLine(Written, LAsst)
  \/ \E t \in Instants : Advance(t)

SpecScan == InitScanSpec /\ [][NextScan]_vars

(***************************************************************************)
(* Properties of discovery                                                 *)
(***************************************************************************)
\* A step in which discover_sessions has run from refresh_all.
Scanned == last' # last /\ last'.op = "scan"

\* C18 as stated: discovery on a root that is missing or unreadable returns
\* an error.
C18_UnreadableOrMissingRootIsError ==
  [][(Scanned /\ root # "ok") => ~last'.ok]_vars

\* C18: discovery on a root that exists and cannot be read returns an error
\* and no session map, the store staying as it was; on a root that does not
\* exist it returns an empty session map and no error; on a root it can
\* read it returns no error.
C18_UnreadableRootIsErrorMissingIsEmpty ==
  [][Scanned =>
       /\ last'.ok <=> root # "unreadable"
       /\ root = "unreadable" => sessions' = sessions
       /\ root = "missing" => last'.post = << >> /\ sessions' = << >>]_vars

\* A forced refresh has failed on an unreadable root and has left the
\* sessions in the store.
C18_Witness ==
  /\ last.op = "scan" /\ ~last.ok
  /\ root = "unreadable"
  /\ sessions # << >>

\* s is the placeholder for the index entry given.
IsPlaceholder(s, entry) ==
  /\ s.messages = <<>> /\ s.file_offset = 0
  /\ s.total_tokens_in = 0 /\ s.total_tokens_out = 0
  /\ s.slug = None
  /\ s.custom_title = entry.custom_title /\ s.summary = entry.summary
  /\ s.git_branch = entry.git_branch /\ s.cwd = entry.project_path

\* The result `found` of a scan of the files fls with the index idx: every
\* log file that is not a sub-agent's has a session; the session of a file
\* that cannot be opened is the placeholder, the others have the messages of
\* their files, of which `read` is what the scan read.
ScanResult(found, fls, idx, read) ==
  /\ DOMAIN found = {id \in Ids : fls[id].exists /\ ~starts_with_agent(id)}
  /\ \A id \in DOMAIN found :
       IF CanOpen(fls[id])
       THEN Shown(found[id].messages) = ShownOf(read[id])
       ELSE IsPlaceholder(found[id], IndexGet(load_sessions_index(idx), id))

\* C19: when a log file cannot be parsed during discovery, at startup or on
\* a forced refresh, the scan goes on with the other files and the store
\* receives for that id a placeholder with no messages, file_offset 0, zero
\* token totals, no slug, and the title, summary, branch and cwd of the
\* index entry, absent when there is no entry.
C19_FailedParseGivesPlaceholder ==
  /\ (root = "ok" => ScanResult(sessions, files, index, last.read))
  /\ [][(Scanned /\ last'.ok /\ root = "ok") =>
          ScanResult(last'.post, files, index, last'.read)]_vars

\* A forced refresh has given the placeholder for the log of S2, with the
\* title of the index, beside the parsed session s1.
C19_Witness ==
  /\ last.op = "scan" /\ last.ok /\ last.pre # << >>
  /\ "S2" \in DOMAIN sessions /\ ~CanOpen(files["S2"])
  /\ sessions["S2"].messages = <<>> /\ sessions["S2"].custom_title = Some("T")
  /\ "s1" \in DOMAIN sessions /\ Len(sessions["s1"].messages) = 2

(***************************************************************************)
(* Properties of the channel between the watcher and the controller        *)
(***************************************************************************)
\* The notifications that are enqueued and not yet handled, oldest first:
\* the rest of the polled batch, then the channel.
Pending == events \o queue

\* C21: the notifications are handled in the order in which the watcher
\* enqueued them, each once, and by the controller only.  A step of the
\* watcher appends one notification to the channel and changes nothing
\* else; any other step leaves the pending notifications as they are or
\* takes the oldest one off, which the controller does in a tick, by the
\* rule for that notification; a notification enqueued while a tick handles
\* its batch stays on the channel behind the batch.
C21_NotificationsInOrderOnce ==
  [][/\ Pending' # Pending =>
          \/ /\ Len(Pending') = Len(Pending) + 1
             /\ SubSeq(Pending', 1, Len(Pending)) = Pending
             /\ queue' = Append(queue, Pending'[Len(Pending')])
             /\ watcher /\ sent' # sent
             /\ UNCHANGED <<fsVars, now, appVars, events, pc, last, writes>>
          \/ /\ Pending # <<>> /\ Pending' = Tail(Pending)
             /\ pc = "drain" /\ events # <<>> /\ events' = Tail(events)
             /\ queue' = queue
             /\ RuleFor(Head(Pending))
     /\ (Pending' = Pending /\ sent' = sent /\ pc = "input" /\ pc' = "drain") =>
          (events' = queue /\ queue' = <<>> /\ UNCHANGED appVars)]_vars

\* A tick is handling its batch, which holds one notification, and the
\* watcher has enqueued another one since the batch was polled.
C21_Witness ==
  /\ pc = "drain"
  /\ Len(events) = 1 /\ Len(queue) = 1
  /\ sent = 0

\* C28: the controller handles a notification about the log of a session
\* that is in the store, of either kind, without parsing again what lies
\* before the session's file_offset: it never handles one by a parse of the
\* whole file ("parse", which reads from the first unit) when the offset is
\* positive.
C28_NotificationsReadFromOffset ==
  [][(/\ pc = "drain" /\ events # <<>> /\ events' = Tail(events)
      /\ Head(events).path.ext = "jsonl"
      /\ Head(events).path.stem \in DOMAIN sessions
      /\ sessions[Head(events).path.stem].file_offset > 0
      /\ last' # last) =>
        last'.op = "tail"]_vars

(***************************************************************************)
(* Properties of move_selection                                            *)
(***************************************************************************)
Clamp(x, lo, hi) == IF x < lo THEN lo ELSE IF x > hi THEN hi ELSE x

\* The steps that move the selection: the list, the filter and the clock
\* stay and the cursor or the selection changes.
SelectionMoved ==
  /\ sorted_session_ids' = sorted_session_ids
  /\ UNCHANGED <<sessions, filter_mode, filter_text, show_active_only, now, focus>>
  /\ <<list_state, selected_session>>' # <<list_state, selected_session>>

\* The state a selection delta d leads to on a non-empty list: the cursor is
\* the current index (0 when there is no cursor) plus d, clamped to the
\* list, and the selection is the id at the cursor.
MovedBy(d) ==
  /\ list_state' =
       Some(Clamp(UnwrapOr(list_state, 0) + d, 0, Len(sorted_session_ids) - 1))
  /\ selected_session' = Some(sorted_session_ids[Get(list_state') + 1])

\* The record move_selection is to give for the delta d.
Moved(a, d) ==
  IF a.sorted_session_ids = <<>> THEN a
  ELSE [a EXCEPT
          !.list_state = Some(Clamp(UnwrapOr(a.list_state, 0) + d, 0,
                                    Len(a.sorted_session_ids) - 1)),
          !.selected_session =
             Some(a.sorted_session_ids[
                    Clamp(UnwrapOr(a.list_state, 0) + d, 0,
                          Len(a.sorted_session_ids) - 1) + 1])]

\* The deltas move_selection is checked with; the keys and the mouse wheel
\* pass 1 and -1.
MoveDeltas == {-2, -1, 0, 1, 2}

\* C25: a selection delta applied to a non-empty list of length n moves the
\* cursor to the current index plus the delta clamped to [0, n-1] and
\* selects the id there; on an empty list neither the cursor nor the
\* selection changes.  This holds of move_selection in every reachable
\* state, and every step that moves the selection is such a move by 1 or -1
\* on a non-empty list.
C25_MoveSelectionClamps ==
  /\ [](\A d \in MoveDeltas : move_selection(AppRec, d) = Moved(AppRec, d))
  /\ [][SelectionMoved =>
          /\ sorted_session_ids # <<>>
          /\ MovedBy(1) \/ MovedBy(-1)]_vars

\* The cursor is on the last of at least two visible sessions, which is
\* selected: a move has taken it there from the first.
C25_Witness ==
  /\ Len(sorted_session_ids) >= 2
  /\ list_state = Some(Len(sorted_session_ids) - 1)
  /\ selected_session = Some(sorted_session_ids[Len(sorted_session_ids)])

(***************************************************************************)
(* SpecHidden: the keys of SpecFilter on the same project directory, and a *)
(* writer that appends a line to the log of s1, which the deduplication    *)
(* hides behind S2, so that the hidden session's file is the recent one.   *)
(***************************************************************************)
HiddenWrites == 1

InitHidden == InitOn(FilterFs, HiddenWrites, 0)

NextHidden ==
  \/ NextFilter
  \/ AppendLine(Written, LTool)

SpecHidden == InitHidden /\ [][NextHidden]_vars

\* The deduplication hides the session id of the store: a session with a
\* more recent last_activity has the same non-empty slug.
HiddenBySlug(store, id) ==
  /\ NonEmptySlug(store[id])
  /\ \E other \in DOMAIN store \ {id} :
       /\ store[other].slug = store[id].slug
       /\ store[other].last_activity > store[id].last_activity

\* C30: when a key has recomputed the visible list, no session that the
\* deduplication hides is in it, whatever the text filter and the
\* active-only flag are and whichever sessions pass them.
C30_FiltersNeverUnhide ==
  [][KeyRecomputed =>
       \A id \in DOMAIN sessions :
         HiddenBySlug(sessions, id) => id \notin Range(sorted_session_ids')]_vars

\* The session that hides s1 fails both filters and s1 alone would pass
\* them: the text filter matches the id of s1 and not S2, the active-only
\* flag is on and only the file of s1 is recent; neither is visible.
C30_Witness ==
  /\ HiddenBySlug(sessions, "s1")
  /\ sessions["S2"].slug = sessions["s1"].slug
  /\ show_active_only /\ IsSome(filter_text) /\ ~filter_mode
  /\ MatchesFilter(sessions["s1"], to_lowercase(Get(filter_text)))
  /\ ~MatchesFilter(sessions["S2"], to_lowercase(Get(filter_text)))
  /\ is_active(files["s1"], now) /\ ~is_active(files["S2"], now)
  /\ "s1" \notin Range(sorted_session_ids)
  /\ "S2" \notin Range(sorted_session_ids)

(***************************************************************************)
(* Properties of the metadata refresh, continued                           *)
(***************************************************************************)
\* The store `after` has the sessions of the store `before`, each with all
\* its fields but custom_title and summary as before.
OnlyTitleAndSummary(before, after) ==
  /\ DOMAIN after = DOMAIN before
  /\ \A id \in DOMAIN before :
       [after[id] EXCEPT !.custom_title = before[id].custom_title,
                         !.summary = before[id].summary] = before[id]

\* The index file of the project is missing or does not parse.
IndexUnusable == index.state # "ok"

\* C29: the metadata refresh changes custom titles and summaries only: it
\* keeps the set of sessions and every other field of every session, and
\* changes no session at all when the index file is missing or malformed.
\* This holds of refresh_index_metadata in every reachable state and of
\* every step of a tick, the refreshes for a notification about the index
\* and the periodic ones among them.
C29_RefreshChangesTitleAndSummaryOnly ==
  /\ [](/\ OnlyTitleAndSummary(sessions, refresh_index_metadata(Fs, sessions))
        /\ IndexUnusable => refresh_index_metadata(Fs, sessions) = sessions)
  /\ [][pc = "drain" =>
          /\ OnlyTitleAndSummary(sessions, sessions')
          /\ IndexUnusable => sessions' = sessions]_vars

\* A refresh has given s1 the title of an index entry that also has a
\* branch and a project path; s1 has the branch and the directory of its
\* log still.
C29_Witness ==
  /\ index = IdxMoved
  /\ sessions["s1"].custom_title = Some("U")
  /\ sessions["s1"].git_branch = Some("dev")
  /\ sessions["s1"].cwd = Some("/w")

(***************************************************************************)
(* SpecCatchUp: one project with the log of S2, empty at startup, with and *)
(* without an index entry that has a branch and a project path.  A writer  *)
(* appends whole lines of every kind to the log between the reads (nothing *)
(* is appended while a read runs), the watcher reports the log as          *)
(* modified, the controller tails it or scans again, and the clock moves.  *)
(***************************************************************************)
CatchWrites == 2
CatchSent == 2

\* An assistant line with usage and a timestamp whose content is empty, a
\* queue-operation line, and a line of the type "command".
LVoidAsst ==
  RawLine("assistant", Some(1040),
          Some(Body(Some(ArrContent(<<TextBlock(<<" ">>)>>)),
                    Some(Usage(Some(9), Some(8), None, None)))),
          Some("sid"), Some("main"), Some("/w"), Some("foo"), None)

LQueue == RawLine("queue-operation", Some(1041), None, Some("sid"), None, None, None, None)

LCommandType ==
  RawLine("command", Some(1045), None, Some("sid"), Some("main"), Some("/w"), Some("foo"), None)

CatchLines ==
  {LUser, LAsst, LTool, LCmd, LVoidAsst, LProg, LSummary, LSnap, LQueue, LCommandType}

IdxBranch == IndexOf("S2" :> IndexEntry(None, None, Some("dev"), Some("/x")))

CatchFs == {FsOf(None, Some(<<>>), None, idx) : idx \in {NoIndex, IdxBranch}}

InitCatchUp == InitOn(CatchFs, CatchWrites, CatchSent)

\* The instant the clock can move on to, before the periodic refresh is due.
CatchInstants == {StartTime + 5}

NextCatchUp ==
  \/ \E l \in CatchLines : AppendLine("S2", l)
  \/ Notify("modified", LogPath("S2"))
  \/ TickPoll
  \/ HandleTrackedModified
  \/ PeriodicSkip
  \/ KeyRefreshAll
  \/ \E t \in CatchInstants : Advance(t)

SpecCatchUp == InitCatchUp /\ [][NextCatchUp]_vars

(***************************************************************************)
(* Properties of the full parse and of the tail reads                      *)
(***************************************************************************)
\* The value the lines give for a metadata field: that of the first line
\* that has metadata with the field set, None when there is no such line.
RECURSIVE StreamValue(_, _)
StreamValue(lines, field) ==
  IF lines = <<>> THEN None
  ELSE IF /\ ~Head(lines).blank
          /\ IsSome(extract_meta(Head(lines)))
          /\ IsSome(Get(extract_meta(Head(lines)))[field])
       THEN Get(extract_meta(Head(lines)))[field]
       ELSE StreamValue(Tail(lines), field)

\* The value of the stream when it has one, the value of the index entry
\* otherwise.
StreamFirst(stream, indexed) == IF IsSome(stream) THEN stream ELSE indexed

\* C27: after a scan, the branch and the working directory of every session
\* are the values of the log's lines when the lines have one, and the
\* values of the index entry only when no line provides the field.
C27_StreamValueWins ==
  (last.op = "scan" /\ last.ok) =>
    \A id \in DOMAIN last.post :
      /\ last.post[id].git_branch =
           StreamFirst(StreamValue(LinesOf(last.read[id]), "git_branch"),
                       IndexGet(load_sessions_index(index), id).git_branch)
      /\ last.post[id].cwd =
           StreamFirst(StreamValue(LinesOf(last.read[id]), "cwd"),
                       IndexGet(load_sessions_index(index), id).project_path)

\* The content of an assistant line has a tool_use block.
HasToolUseBlock(line) ==
  /\ IsSome(line.message) /\ IsSome(Get(line.message).content)
  /\ Get(Get(line.message).content).k = "arr"
  /\ \E b \in Range(Get(Get(line.message).content).items) : b.type = "tool_use"

\* The lines of the types parse_line names.
NamedTypes == {"file-history-snapshot", "queue-operation", "user", "assistant", "progress"}

\* What parse_line gives for the lines of the named types: m is its result.
NamedTypeRule(line, m) ==
  /\ line.type \in {"file-history-snapshot", "queue-operation"} => IsNone(m)
  /\ (line.type = "user" /\ IsSome(m)) => Get(m).msg_type = "User"
  /\ (line.type = "assistant" /\ IsSome(m)) =>
       Get(m).msg_type = IF HasToolUseBlock(line) THEN "ToolUse" ELSE "Assistant"
  /\ line.type = "progress" =>
       IsSome(m) /\ Get(m).msg_type = "Progress" /\ Get(m).content = "[progress]"
  /\ (IsSome(m) /\ (IsSome(Get(m).tokens_in) \/ IsSome(Get(m).tokens_out))) =>
       line.type = "assistant"

\* A line of another type t gives an Other message with the content "[t]".
OtherTypeRule(line, m) ==
  IsSome(m) /\ Get(m).msg_type = "Other" /\ Get(m).content = "[" \o line.type \o "]"

\* The decodable lines of the log files.
DecodableLines ==
  {l \in UNION {Range(LinesOf(files[id].bytes)) : id \in Ids} : l.json /\ ~l.blank}

\* C24, as stated: parse_line gives no message for file-history-snapshot
\* and queue-operation, User for user, ToolUse or Assistant for assistant,
\* Progress "[progress]" for progress, and Other "[t]" for every other type
\* t; only assistant messages carry token counts.
C24_TypeMapping ==
  \A line \in DecodableLines :
    /\ NamedTypeRule(line, parse_line(line, now))
    /\ line.type \notin NamedTypes => OtherTypeRule(line, parse_line(line, now))

\* C24, amended: as above, but a line of the type "command" gives no
\* message, "[command]" being a content that parse_line skips.
C24_TypeMappingButCommand ==
  \A line \in DecodableLines :
    /\ NamedTypeRule(line, parse_line(line, now))
    /\ line.type \notin NamedTypes =>
         IF line.type = "command" THEN IsNone(parse_line(line, now))
         ELSE OtherTypeRule(line, parse_line(line, now))

\* The log holds a summary line and a line with a tool_use block, and the
\* session has the Other message "[summary]" and the ToolUse message.
C24_Witness ==
  /\ "S2" \in DOMAIN sessions
  /\ LSummary \in DecodableLines /\ LTool \in DecodableLines
  /\ \E i, j \in 1..Len(sessions["S2"].messages) :
       /\ sessions["S2"].messages[i].msg_type = "Other"
       /\ sessions["S2"].messages[i].content = "[summary]"
       /\ sessions["S2"].messages[j].msg_type = "ToolUse"

\* The units of a file from position n + 1 on.
UnitsFrom(f, n) == SubSeq(f.bytes, n + 1, Len(f.bytes))

\* A line that decodes and whose extracted content is empty or "[command]".
Void(line) ==
  /\ line.json /\ ~line.blank
  /\ line.type \notin {"file-history-snapshot", "queue-operation"}
  /\ TypedMessage(line, 0).content \in {"", "[command]"}

\* The units without the lines that are Void.
WithoutVoid(units) == WholeLines(SelectSeq(LinesOf(units), LAMBDA l : ~Void(l)))

\* The messages, the token totals and the last_activity of a session.
Counted(s) ==
  <<s.messages, s.total_tokens_in, s.total_tokens_out, s.last_activity>>

\* The entry of the index for id.
EntryOf(id) == IndexGet(load_sessions_index(index), id)

\* C23: a line whose extracted content is empty or "[command]" gives no
\* message and changes neither the token totals nor last_activity, whatever
\* timestamp and usage it has.  A full parse of a log gives the messages,
\* totals and last_activity that it gives without these lines, and a tail
\* read gives those that it gives when the new part of the file is without
\* them.
C23_VoidLinesLeaveNoTrace ==
  /\ [](\A id \in DOMAIN sessions :
          CanOpen(files[id]) =>
            Counted(parse_session_file(id, files[id], EntryOf(id), now, <<>>).session) =
            Counted(parse_session_file(id, File(WithoutVoid(files[id].bytes), files[id].mtime),
                                       EntryOf(id), now, <<>>).session))
  /\ [][(last' # last /\ last'.op = "tail" /\ last'.ok /\ files' = files) =>
          Counted(sessions'[last'.id]) =
          Counted(read_new_lines(
                    sessions[last'.id],
                    File(SubSeq(files[last'.id].bytes, 1, sessions[last'.id].file_offset)
                           \o WithoutVoid(UnitsFrom(files[last'.id],
                                                    sessions[last'.id].file_offset)),
                         files[last'.id].mtime),
                    now, <<>>).session)]_vars

\* A tail read has read the assistant line with usage and no content behind
\* a user line: the session has the one message, no tokens and the
\* last_activity of the user line.
C23_Witness ==
  /\ last.op = "tail" /\ last.ok /\ last.id = "S2"
  /\ files["S2"].bytes = WholeLines(<<LUser, LVoidAsst>>)
  /\ sessions["S2"].file_offset = Len(files["S2"].bytes)
  /\ Len(sessions["S2"].messages) = 1
  /\ sessions["S2"].total_tokens_in = 0 /\ sessions["S2"].total_tokens_out = 0
  /\ sessions["S2"].last_activity = 1010

\* The full parse of the first n units of the log of id, at the clock c and
\* with the entry the index has for id.
ParseOfPrefix(id, n, c) ==
  parse_session_file(id, File(SubSeq(files[id].bytes, 1, n), files[id].mtime),
                     EntryOf(id), c, <<>>).session

\* What C26 compares of a session.
Tracked(s) ==
  <<s.messages, s.total_tokens_in, s.total_tokens_out, s.slug, s.git_branch, s.cwd,
    s.file_offset>>

\* The messages ms are the messages ps of a parse at the clock c, but for
\* the timestamps that the parse took from the clock, which in ms are
\* earlier readings of the clock.
SameButStamps(ms, ps, c) ==
  /\ Len(ms) = Len(ps)
  /\ \A i \in 1..Len(ms) :
       \/ ms[i] = ps[i]
       \/ /\ ps[i].timestamp = c /\ ms[i].timestamp <= c
          /\ [ms[i] EXCEPT !.timestamp = c] = ps[i]

\* The readings of the clock in SpecCatchUp.
Clocks == {StartTime} \cup CatchInstants

\* C26, as stated: a session that is up to date with its file has the
\* messages, token totals, slug, branch, cwd and file_offset of one full
\* parse of the file with the same index entry, at some reading of the
\* clock.
C26_TailEqualsFullParse ==
  \A id \in DOMAIN sessions :
    (CanOpen(files[id]) /\ sessions[id].file_offset = Len(files[id].bytes)) =>
      \E c \in Clocks :
        Tracked(sessions[id]) = Tracked(ParseOfPrefix(id, Len(files[id].bytes), c))

\* C26, amended: a session has the token totals, slug, branch, cwd and
\* file_offset of a full parse of the file up to its file_offset, so of the
\* whole file once it is up to date, and the messages of that parse but for
\* the timestamps of the lines that have none, which are the time of the
\* read that took the line.
C26_TailEqualsFullParseButStamps ==
  \A id \in DOMAIN sessions :
    (CanOpen(files[id]) /\ sessions[id].file_offset <= Len(files[id].bytes)) =>
      /\ Tracked([sessions[id] EXCEPT !.messages = <<>>]) =
           Tracked([ParseOfPrefix(id, sessions[id].file_offset, now)
                      EXCEPT !.messages = <<>>])
      /\ SameButStamps(sessions[id].messages,
                       ParseOfPrefix(id, sessions[id].file_offset, now).messages, now)

\* Two tail reads have brought S2 up to date with a log of two lines, the
\* first of which gave the slug: the session has both messages and the
\* tokens of the second.
C26_Witness ==
  /\ last.op = "tail" /\ last.ok /\ last.id = "S2"
  /\ Len(last.pre["S2"].messages) = 1 /\ last.pre["S2"].file_offset = 2
  /\ files["S2"].bytes = WholeLines(<<LUser, LAsst>>)
  /\ sessions["S2"].file_offset = 4
  /\ Len(sessions["S2"].messages) = 2
  /\ sessions["S2"].slug = Some("foo")
  /\ sessions["S2"].total_tokens_in = 7

(***************************************************************************)
(* SpecPartial: the log of s1, empty at startup, and a writer that writes  *)
(* a line in two steps, first a part of its text and then the rest with    *)
(* the newline; the watcher reports the log as modified and the controller *)
(* tails it.  Nothing is written while a read runs.                        *)
(***************************************************************************)
PartialUnits == 4
PartialSent == 2

\* The last unit of a file is the first part of a line still to be
\* completed.
Unfinished(f) == f.bytes # <<>> /\ f.bytes[Len(f.bytes)].k = "head"

\* The writer writes the first part of the line l to the end of the file.
WriteHead(id, l) ==
  /\ files[id].exists
  /\ ~Unfinished(files[id])
  /\ Len(files[id].bytes) + 2 <= PartialUnits
  /\ files' = GrownAt(files, id, <<HeadUnit(l)>>)
  /\ UNCHANGED <<root, index, now, appVars, watcher, queue, events, pc, last, writes, sent>>

\* The writer completes the line whose first part ends the file.
WriteTail(id) ==
  /\ files[id].exists
  /\ Unfinished(files[id])
  /\ files' = GrownAt(files, id, <<TailUnit(files[id].bytes[Len(files[id].bytes)].line)>>)
  /\ UNCHANGED <<root, index, now, appVars, watcher, queue, events, pc, last, writes, sent>>

PartialFs == {FsOf(Some(<<>>), None, None, NoIndex)}

InitPartial == InitOn(PartialFs, 0, PartialSent)

NextPartial ==
  \/ \E l \in {LUser, LAsst} : WriteHead(Written, l)
  \/ WriteTail(Written)
  \/ Notify("modified", LogPath(Written))
  \/ TickPoll
  \/ HandleTrackedModified
  \/ PeriodicSkip

SpecPartial == InitPartial /\ [][NextPartial]_vars

\* C22: a line that was partly on disk at a tail read is not lost.  When a
\* tail read of a session has run on a file all of whose lines are
\* complete, and has taken the session to the end of the file, the session
\* has the messages of all the lines of the file.
C22_PartialLineNotLost ==
  \A id \in DOMAIN sessions :
    (/\ last.op = "tail" /\ last.ok /\ last.id = id
     /\ CanOpen(files[id]) /\ ~Unfinished(files[id])
     /\ sessions[id].file_offset = Len(files[id].bytes)) =>
      Shown(sessions[id].messages) = ShownOf(files[id].bytes)

(***************************************************************************)
(* SpecLive: the loop of run_event_loop with its inner loop, which reads   *)
(* and handles input events for as long as one is pending (pc = "batch")   *)
(* and only then goes on to the tick.  The input events are the selection  *)
(* keys; the watcher reports the log of S2 and the index as modified.      *)
(***************************************************************************)
LiveSent == 2

\* One turn of the inner loop: event::read and handle_key_event, for the
\* keys j and k (delta 1 and -1).  The first turn follows event::poll with
\* the timeout, the later ones event::poll(Duration::ZERO).
BatchInput(delta) ==
  /\ pc \in {"input", "batch"}
  /\ ~should_quit /\ ~filter_mode /\ focus = "Sessions"
  /\ SetApp(move_selection(AppRec, delta))
  /\ pc' = "batch"
  /\ UNCHANGED <<fsVars, now, watcher, queue, events, last, writes, sent>>

\* The inner loop ends: event::poll(Duration::ZERO) finds no input pending.
BatchEnd ==
  /\ pc = "batch"
  /\ pc' = "input"
  /\ UNCHANGED <<fsVars, now, appVars, watcher, queue, events, last, writes, sent>>

LiveFs == {FsOf(Some(<<LUser>>), Some(<<LBare>>), None, IdxT1)}

InitLive == InitOn(LiveFs, 0, LiveSent)

\* The steps of the controller.
Controller ==
  \/ \E delta \in {-1, 1} : BatchInput(delta)
  \/ BatchEnd
  \/ TickPoll
  \/ HandleIndexModified
  \/ HandleTrackedModified
  \/ PeriodicSkip

NextLive ==
  \/ Controller
  \/ \E path \in {LogPath("S2"), IndexPath} : Notify("modified", path)

\* The controller keeps running: the process does not exit and does not
\* block.  Outside the inner loop a tick is due 250 ms after the last one,
\* whatever happens in between, so the tick is taken if the loop is outside
\* the inner loop again and again.  Whether input is pending when the inner
\* loop polls is up to the user, so nothing makes the inner loop end.
SpecLive ==
  InitLive /\ [][NextLive]_vars /\ WF_vars(Controller) /\ SF_vars(TickPoll)

\* C31: every notification placed on the queue is eventually applied by a
\* tick, whatever input events arrive: when notifications are pending, a
\* state follows in which none is.
C31_NotificationsEventuallyApplied == (Pending # <<>>) ~> (Pending = <<>>)

(***************************************************************************)
(* Properties of the selection, the cursor and the visible list            *)
(***************************************************************************)
\* C32: when a key has recomputed the visible list and the list is not
\* empty, a session of the list is selected, and it is the first of the
\* list when nothing was selected before.
C32_NonEmptyListHasSelection ==
  [][(KeyRecomputed /\ sorted_session_ids' # <<>>) =>
       /\ IsSome(selected_session')
       /\ Get(selected_session') \in Range(sorted_session_ids')
       /\ IsNone(selected_session) => selected_session' = Some(sorted_session_ids'[1])]_vars

(***************************************************************************)
(* SpecStore: three sessions, two of them of one slug, the log of S2       *)
(* readable or not.  Log files are removed and the root loses and regains  *)
(* its read permission or is removed; the watcher reports a log as         *)
(* modified or created; the user refreshes, moves and confirms the         *)
(* selection and types a filter that matches nothing.                      *)
(***************************************************************************)
StoreSent == 1

StoreBase == FsOf(Some(<<LUser>>), Some(<<LUser, LAsst>>), Some(<<LBare>>), IdxT1)

StoreFs == {StoreBase, [StoreBase EXCEPT !.files["S2"] = Unreadable(@)]}

InitStore == InitOn(StoreFs, 0, StoreSent)

NextStore ==
  \/ TickPoll
  \/ HandleTrackedModified
  \/ HandleCreated
  \/ PeriodicSkip
  \/ \E id \in {"s1", "S2", "s3"} : Notify("modified", LogPath(id))
  \/ Notify("created", LogPath("s3"))
  \/ KeyRefreshAll
  \/ \E id \in {"s1", "s3"} : RemoveFile(id)
  \/ \E r \in {"ok", "unreadable"} : SetRoot(r)
  \/ RemoveRoot
  \/ \E delta \in {-1, 1} : KeyMove(delta)
  \/ KeyEnter
  \/ KeySlash
  \/ FilterChar("z")
  \/ FilterEsc

SpecStore == InitStore /\ [][NextStore]_vars

\* C33: every id of the visible list is a key of the session store.
C33_VisibleIdsAreInStore == Range(sorted_session_ids) \subseteq DOMAIN sessions

\* A forced refresh has dropped s3, whose file is gone, from the store, and
\* the visible list holds other sessions.
C33_Witness ==
  /\ last.op = "scan" /\ last.ok
  /\ "s3" \in DOMAIN last.pre /\ "s3" \notin DOMAIN sessions
  /\ sorted_session_ids # <<>>

\* C34: the cursor and the selected id agree: both are absent, or the
\* cursor is a position of the visible list and the id there is the
\* selected one.
C34_CursorAndSelectionAgree ==
  \/ IsNone(list_state) /\ IsNone(selected_session)
  \/ /\ IsSome(list_state) /\ IsSome(selected_session)
     /\ Get(list_state) + 1 \in 1..Len(sorted_session_ids)
     /\ sorted_session_ids[Get(list_state) + 1] = Get(selected_session)

\* A forced refresh has dropped s1, whose file is gone, and the cursor is
\* on the second of the sessions that are left, which is the selected one.
C34_Witness ==
  /\ last.op = "scan" /\ last.ok
  /\ "s1" \in DOMAIN last.pre /\ "s1" \notin DOMAIN sessions
  /\ Len(sorted_session_ids) >= 2
  /\ list_state = Some(1)
  /\ selected_session = Some(sorted_session_ids[2])

\* Two sessions are the same but for the custom title, which the
\* deduplication of a recompute can copy from a hidden session of the slug.
SameButTitle(s, t) == [s EXCEPT !.custom_title = t.custom_title] = t

\* The ids that a scan of the project directory finds.
FoundIds(r, fls) ==
  IF r = "ok" THEN {id \in Ids \ SubagentIds : fls[id].exists} ELSE {}

\* C35, as stated: a forced refresh whose discovery fails leaves the store,
\* the visible list, the selection and the cursor as they were; one whose
\* discovery succeeds leaves the store equal to the scan result; a session
\* leaves the store in such a step only.
C35_RefreshReplacesStore ==
  [][/\ (last' # last /\ last'.op = "scan" /\ ~last'.ok) =>
          UNCHANGED <<sessions, sorted_session_ids, selected_session, list_state>>
     /\ (last' # last /\ last'.op = "scan" /\ last'.ok) => sessions' = last'.post
     /\ ~(DOMAIN sessions \subseteq DOMAIN sessions') =>
          (last' # last /\ last'.op = "scan" /\ last'.ok)]_vars

\* C35, amended: as above, but after a successful refresh the store is the
\* scan result with the custom titles that the recompute copies to the
\* kept session of a slug: it has the sessions of the scan result, those of
\* the files that exist, each with every other field as scanned.
C35_RefreshReplacesOrKeeps ==
  [][/\ (last' # last /\ last'.op = "scan" /\ ~last'.ok) =>
          UNCHANGED <<sessions, sorted_session_ids, selected_session, list_state>>
     /\ (last' # last /\ last'.op = "scan" /\ last'.ok) =>
          /\ DOMAIN sessions' = DOMAIN last'.post
          /\ DOMAIN sessions' = FoundIds(root, files')
          /\ \A id \in DOMAIN sessions' : SameButTitle(sessions'[id], last'.post[id])
     /\ ~(DOMAIN sessions \subseteq DOMAIN sessions') =>
          (last' # last /\ last'.op = "scan" /\ last'.ok)]_vars

\* A forced refresh has failed on a root that cannot be read, after the
\* file of s3 was removed: s3 is still in the store and in the list.
C35_Witness ==
  /\ last.op = "scan" /\ ~last.ok
  /\ root = "unreadable"
  /\ ~files["s3"].exists
  /\ "s3" \in DOMAIN sessions /\ "s3" \in Range(sorted_session_ids)

\* C36: when the tail read for a modification notification fails, the
\* session stays in the store with its messages, token totals, metadata,
\* last_activity and file_offset as they were, the loop goes on, and the
\* step ends with the recompute of the visible list.
C36_FailedTailReadKeepsSession ==
  [][(last' # last /\ last'.op = "tail" /\ ~last'.ok) =>
       /\ last'.id \in DOMAIN sessions'
       /\ sessions'[last'.id] = sessions[last'.id]
       /\ RecomputedOn(sessions)
       /\ pc' = pc /\ should_quit' = should_quit]_vars
====
